---- MODULE Spec2Model ----
(***************************************************************************)
(* Spend_Sight: the expense store (server/storage.ts), its HTTP routes     *)
(* (server/routes.ts) and the AI reply shaping (server/openai.ts).         *)
(*                                                                         *)
(* Amounts are JavaScript numbers: storage.ts hands parseFloat(amount) to  *)
(* the models and MongoDB's $sum adds them, so an amount is modelled as an *)
(* IEEE-754 binary64 value, kept exactly as an integer multiple of 2^-64   *)
(* in four 20-bit limbs (least significant first).  Every binary64 value   *)
(* of magnitude in [2^-11, 2^8) is such a multiple, and results below      *)
(* 2^-11 are exact; the arithmetic stops with an error outside that range. *)
(* Dates are ISO "yyyy-mm-dd" strings, modelled as day numbers in the      *)
(* order in which MongoDB's $gte/$lte compare the strings.                 *)
(***************************************************************************)
EXTENDS Integers, Sequences, FiniteSets, TLC

VARIABLES
    expenses,    \* ExpenseModel collection: _id -> [userId, categoryId, amount, date]
    categories,  \* CategoryModel collection: _id -> [name, color]
    budgets,     \* BudgetModel collection: _id -> [userId, categoryId, amount]
    insights,    \* InsightModel collection: _id -> [userId, type, title, priority, isRead]
    nextId,      \* per collection, the _id the next save() gets
    call,        \* the local variables of the getExpenseStats call in flight
    resp,        \* status of the last HTTP response sent (0: none yet)
    seen,        \* history: the states of the expense collection during the call in flight
    writes,      \* history: number of expense writes that ran during the call in flight
    ai,          \* history: the last reply of the AI service to generateInsights or to a
                 \* direct call of categorizeExpense, and what openai.ts returned for it
    pending      \* the asynchronous runs in flight besides that call: run -> its locals

vars == <<expenses, categories, budgets, insights, nextId, call, resp, seen, writes, ai, pending>>

(***************************** bounds ***************************************)
MaxExpenses == 3
MaxCategories == 1
MaxBudgets == 1
MaxInsights == 2
MaxInterleave == 1
MaxReplyInsights == 2
MaxCurrent == 2
MaxPrevious == 1
MaxRequests == 2
MaxStarts == 2

Users == {"u1", "u2"}
Dates == {1, 2}
\* the server's clock stands in the month that is day 2; day 1 is the last day
\* of the month before: <<first day, last day>>
CurrentMonth == <<2, 2>>
PreviousMonth == <<1, 1>>
Null == 0

(*********************** binary64 arithmetic ********************************)
Base == 2^20
OutOfRange == CHOOSE v \in {} : TRUE
ZeroMag == <<0, 0, 0, 0>>

RECURSIVE BitLen(_)
BitLen(n) == IF n = 0 THEN 0 ELSE 1 + BitLen(n \div 2)

MagBitLen(m) ==
    IF m[4] # 0 THEN 60 + BitLen(m[4])
    ELSE IF m[3] # 0 THEN 40 + BitLen(m[3])
    ELSE IF m[2] # 0 THEN 20 + BitLen(m[2])
    ELSE BitLen(m[1])

MagAdd(a, b) ==
    LET s1 == a[1] + b[1]
        s2 == a[2] + b[2] + (s1 \div Base)
        s3 == a[3] + b[3] + (s2 \div Base)
        s4 == a[4] + b[4] + (s3 \div Base)
    IN  IF s4 >= Base THEN OutOfRange
        ELSE <<s1 % Base, s2 % Base, s3 % Base, s4>>

MagLess(a, b) ==
    \/ a[4] < b[4]
    \/ a[4] = b[4] /\ a[3] < b[3]
    \/ a[4] = b[4] /\ a[3] = b[3] /\ a[2] < b[2]
    \/ a[4] = b[4] /\ a[3] = b[3] /\ a[2] = b[2] /\ a[1] < b[1]

\* a - b, for a >= b
MagSub(a, b) ==
    LET d1 == a[1] - b[1]
        w1 == IF d1 < 0 THEN 1 ELSE 0
        d2 == a[2] - b[2] - w1
        w2 == IF d2 < 0 THEN 1 ELSE 0
        d3 == a[3] - b[3] - w2
        w3 == IF d3 < 0 THEN 1 ELSE 0
        d4 == a[4] - b[4] - w3
    IN  <<d1 + w1 * Base, d2 + w2 * Base, d3 + w3 * Base, d4>>

\* 2^k as a magnitude
MagPow2(k) ==
    LET limb(i) == IF i = k \div 20 THEN 2^(k % 20) ELSE 0
    IN  <<limb(0), limb(1), limb(2), limb(3)>>

\* m modulo 2^p
MagMod2(m, p) ==
    LET limb(i) == IF i < p \div 20 THEN m[i + 1]
                   ELSE IF i = p \div 20 THEN m[i + 1] % (2^(p % 20))
                   ELSE 0
    IN  <<limb(0), limb(1), limb(2), limb(3)>>

MagBit(m, k) == (m[(k \div 20) + 1] \div (2^(k % 20))) % 2

\* round to nearest, ties to even, at 53 significant bits; sticky: the exact
\* value lies strictly above m
Round53(m, sticky) ==
    LET p == MagBitLen(m) - 53
    IN  IF p <= 0 THEN (IF sticky THEN OutOfRange ELSE m)
        ELSE LET r    == MagMod2(m, p)
                 half == MagPow2(p - 1)
                 odd  == MagBit(m, p) = 1
                 up   == MagLess(half, r) \/ (r = half /\ (sticky \/ odd))
                 down == MagSub(m, r)
             IN  IF up THEN MagAdd(down, MagPow2(p)) ELSE down

\* the binary64 value nearest to the decimal n / 10^k (k <= 3)
DecToMag(n, k) ==
    LET D  == 10^k
        d5 == (16 * n) \div Base
        d4 == (16 * n) % Base
        c4 == (d5 % D) * Base + d4
        c3 == (c4 % D) * Base
        c2 == (c3 % D) * Base
        c1 == (c2 % D) * Base
    IN  IF k > 3 \/ d5 \div D # 0 THEN OutOfRange
        ELSE IF n = 0 THEN ZeroMag
        ELSE Round53(<<c1 \div D, c2 \div D, c3 \div D, c4 \div D>>, c1 % D # 0)

NaN == [nan |-> TRUE, neg |-> FALSE, mag |-> ZeroMag]
F64(neg, mag) == [nan |-> FALSE, neg |-> neg /\ mag # ZeroMag, mag |-> mag]
Zero == F64(FALSE, ZeroMag)
One == F64(FALSE, <<0, 0, 0, 16>>)
Half == F64(FALSE, DecToMag(5, 1))

\* JavaScript's + on numbers, MongoDB's $sum on doubles
F64Add(a, b) ==
    IF a.nan \/ b.nan THEN NaN
    ELSE IF a.neg = b.neg THEN F64(a.neg, Round53(MagAdd(a.mag, b.mag), FALSE))
    ELSE IF MagLess(a.mag, b.mag) THEN F64(b.neg, Round53(MagSub(b.mag, a.mag), FALSE))
    ELSE F64(a.neg, Round53(MagSub(a.mag, b.mag), FALSE))

\* a < b on numbers (false when either is NaN)
F64Less(a, b) ==
    /\ ~a.nan
    /\ ~b.nan
    /\ IF a.neg /\ b.neg THEN MagLess(b.mag, a.mag)
       ELSE IF a.neg THEN TRUE
       ELSE IF b.neg THEN FALSE
       ELSE MagLess(a.mag, b.mag)

\* JavaScript's - on numbers
F64Sub(a, b) == F64Add(a, [b EXCEPT !.neg = ~b.neg /\ ~b.nan /\ b.mag # ZeroMag])

\* the 10 bytes of a magnitude, lowest first, and the magnitude of 10 bytes
MagBytes(m) ==
    <<m[1] % 256, (m[1] \div 256) % 256, (m[1] \div 65536) + (m[2] % 16) * 16,
      (m[2] \div 16) % 256, m[2] \div 4096,
      m[3] % 256, (m[3] \div 256) % 256, (m[3] \div 65536) + (m[4] % 16) * 16,
      (m[4] \div 16) % 256, m[4] \div 4096>>

BytesMag(y) ==
    <<y[1] + y[2] * 256 + (y[3] % 16) * 65536, (y[3] \div 16) + y[4] * 16 + y[5] * 4096,
      y[6] + y[7] * 256 + (y[8] % 16) * 65536, (y[8] \div 16) + y[9] * 16 + y[10] * 4096>>

\* column k (from 0) of the schoolbook product of two 10-byte numbers
RECURSIVE Column(_, _, _, _)
Column(x, y, k, i) ==
    IF i > 9 \/ i > k THEN 0
    ELSE (IF k - i <= 9 THEN x[i + 1] * y[k - i + 1] ELSE 0) + Column(x, y, k, i + 1)

\* the 20 bytes of the product, lowest first
RECURSIVE ProductBytes(_, _, _, _)
ProductBytes(x, y, k, carry) ==
    IF k > 19 THEN << >>
    ELSE LET c == Column(x, y, k, 0) + carry
         IN  <<c % 256>> \o ProductBytes(x, y, k + 1, c \div 256)

\* JavaScript's * on numbers: the exact product, rounded once
F64Mul(a, b) ==
    IF a.nan \/ b.nan THEN NaN
    ELSE LET prod   == ProductBytes(MagBytes(a.mag), MagBytes(b.mag), 0, 0)
             sticky == \E i \in 1..8 : prod[i] # 0
         IN  IF \E i \in 19..20 : prod[i] # 0 THEN OutOfRange
             ELSE F64(a.neg # b.neg, Round53(BytesMag(SubSeq(prod, 9, 18)), sticky))

\* long division of n * 2^64 by d over the bits i down to stop of the dividend,
\* continuing from the quotient and remainder in st
RECURSIVE DivideFrom(_, _, _, _, _)
DivideFrom(n, d, i, stop, st) ==
    IF i < stop THEN st
    ELSE LET bit  == IF i >= 64 THEN MagBit(n, i - 64) ELSE 0
             rem2 == MagAdd(MagAdd(st.rem, st.rem), <<bit, 0, 0, 0>>)
             q2   == MagAdd(st.quot, st.quot)
         IN  IF MagLess(rem2, d)
             THEN DivideFrom(n, d, i - 1, stop, [quot |-> q2, rem |-> rem2])
             ELSE DivideFrom(n, d, i - 1, stop,
                             [quot |-> MagAdd(q2, <<1, 0, 0, 0>>), rem |-> MagSub(rem2, d)])

\* floor(n * 2^64 / d) and the remainder, the dividend taken 24 bits at a time
Divide(n, d) ==
    LET top == MagBitLen(n) + 63
        s1  == DivideFrom(n, d, top, 120, [quot |-> ZeroMag, rem |-> ZeroMag])
        s2  == DivideFrom(n, d, IF top < 119 THEN top ELSE 119, 96, s1)
        s3  == DivideFrom(n, d, IF top < 95 THEN top ELSE 95, 72, s2)
        s4  == DivideFrom(n, d, 71, 48, s3)
        s5  == DivideFrom(n, d, 47, 24, s4)
    IN  DivideFrom(n, d, 23, 0, s5)

\* JavaScript's / on numbers, for a divisor that is not 0
F64Div(a, b) ==
    IF a.nan \/ b.nan THEN NaN
    ELSE IF b.mag = ZeroMag THEN OutOfRange
    ELSE IF a.mag = ZeroMag THEN Zero
    ELSE LET q == Divide(a.mag, b.mag)
         IN  F64(a.neg # b.neg, Round53(q.quot, q.rem # ZeroMag))

(****************************** strings *************************************)
CharAt(s, i) == SubSeq(s, i, i)

Digit(c) ==
    CASE c = "0" -> 0 [] c = "1" -> 1 [] c = "2" -> 2 [] c = "3" -> 3 [] c = "4" -> 4
      [] c = "5" -> 5 [] c = "6" -> 6 [] c = "7" -> 7 [] c = "8" -> 8 [] c = "9" -> 9
      [] OTHER -> -1

\* the longest prefix of s from st.i on that reads as digits [. digits]
RECURSIVE ScanDecimal(_, _)
ScanDecimal(s, st) ==
    IF st.i > Len(s) THEN st
    ELSE LET c == CharAt(s, st.i)
         IN  IF Digit(c) >= 0
             THEN ScanDecimal(s, [st EXCEPT !.i = @ + 1, !.n = 10 * @ + Digit(c),
                                            !.k = IF st.dot THEN @ + 1 ELSE @,
                                            !.digits = TRUE])
             ELSE IF c = "." /\ ~st.dot
             THEN ScanDecimal(s, [st EXCEPT !.i = @ + 1, !.dot = TRUE])
             ELSE st

\* JavaScript's parseFloat on a string without exponent or leading blanks
parseFloat(s) ==
    LET sign == Len(s) > 0 /\ CharAt(s, 1) \in {"-", "+"}
        st   == ScanDecimal(s, [i |-> IF sign THEN 2 ELSE 1, n |-> 0, k |-> 0,
                                digits |-> FALSE, dot |-> FALSE])
    IN  IF ~st.digits THEN NaN
        ELSE F64(Len(s) > 0 /\ CharAt(s, 1) = "-", DecToMag(st.n, st.k))

LowerChar(c) ==
    CASE c = "A" -> "a" [] c = "B" -> "b" [] c = "C" -> "c" [] c = "D" -> "d"
      [] c = "E" -> "e" [] c = "F" -> "f" [] c = "G" -> "g" [] c = "H" -> "h"
      [] c = "I" -> "i" [] c = "J" -> "j" [] c = "K" -> "k" [] c = "L" -> "l"
      [] c = "M" -> "m" [] c = "N" -> "n" [] c = "O" -> "o" [] c = "P" -> "p"
      [] c = "Q" -> "q" [] c = "R" -> "r" [] c = "S" -> "s" [] c = "T" -> "t"
      [] c = "U" -> "u" [] c = "V" -> "v" [] c = "W" -> "w" [] c = "X" -> "x"
      [] c = "Y" -> "y" [] c = "Z" -> "z" [] OTHER -> c

RECURSIVE toLowerCase(_)
toLowerCase(s) ==
    IF Len(s) = 0 THEN "" ELSE LowerChar(CharAt(s, 1)) \o toLowerCase(SubSeq(s, 2, Len(s)))

\* String.prototype.includes
includes(s, t) == \E i \in 1..(Len(s) - Len(t) + 1) : SubSeq(s, i, i + Len(t) - 1) = t

\* Number(s) for a string s, as Math.min / Math.max coerce their arguments
ToNumber(s) ==
    LET sign == Len(s) > 0 /\ CharAt(s, 1) \in {"-", "+"}
        st   == ScanDecimal(s, [i |-> IF sign THEN 2 ELSE 1, n |-> 0, k |-> 0,
                                digits |-> FALSE, dot |-> FALSE])
    IN  IF Len(s) = 0 THEN Zero
        ELSE IF ~st.digits \/ st.i <= Len(s) THEN NaN
        ELSE F64(CharAt(s, 1) = "-", DecToMag(st.n, st.k))

(************************** server/openai.ts ********************************)
\* A reply of the AI service is one of
\*   [kind |-> "throw"]      openai.chat.completions.create rejects
\*   [kind |-> "malformed"]  the content is not JSON: JSON.parse throws
\*   [kind |-> "empty"]      the content is null or "": the default literal is parsed
\*   [kind |-> "null"]       the content is the JSON text null
\*   [kind |-> "object"]     the content is a JSON object with the fields given
\* A field of a JSON object is Undefined when the object has no such field.
Undefined == "<undefined>"
Truthy(v) == v # Undefined /\ v # ""

MathMin(a, b) == IF a.nan \/ b.nan THEN NaN ELSE IF F64Less(b, a) THEN b ELSE a
MathMax(a, b) == IF a.nan \/ b.nan THEN NaN ELSE IF F64Less(a, b) THEN b ELSE a

\* result.confidence || 0.5, coerced as Math.min coerces it; conf is
\* [t |-> "undefined"], [t |-> "num", v |-> literal] or [t |-> "str", v |-> text]
ConfidenceOrDefault(conf) ==
    IF conf.t = "undefined" THEN Half
    ELSE IF conf.t = "num"
         THEN (IF parseFloat(conf.v).mag = ZeroMag THEN Half ELSE parseFloat(conf.v))
    ELSE IF conf.v = "" THEN Half
    ELSE ToNumber(conf.v)

\* a fallback carrying the confidence default of the try branch
categorizeFallbackHalf ==
    [category |-> "shopping", confidence |-> Half,
     reasoning |-> "AI categorization based on description"]

categorizeFallback ==
    [category |-> "shopping", confidence |-> F64(FALSE, DecToMag(1, 1)),
     reasoning |-> "Default categorization due to AI service error"]

\* the eight categories that the prompt lists
ExpenseCategories ==
    {"food", "transportation", "shopping", "entertainment", "bills", "healthcare",
     "education", "travel"}

\* a categorizeExpense that checks the label against the list of the prompt
categorizeExpenseValidated(description, amount, reply) ==
    IF reply.kind \in {"throw", "malformed", "null"} THEN categorizeFallback
    ELSE LET result == IF reply.kind = "empty"
                       THEN [category |-> Undefined, confidence |-> [t |-> "undefined"],
                             reasoning |-> Undefined]
                       ELSE reply.json
         IN  [category   |-> IF result.category \in ExpenseCategories THEN result.category
                             ELSE "shopping",
              confidence |-> MathMax(Zero, MathMin(One, ConfidenceOrDefault(result.confidence))),
              reasoning  |-> IF Truthy(result.reasoning) THEN result.reasoning
                             ELSE "AI categorization based on description"]

categorizeExpense(description, amount, reply) ==
    IF reply.kind \in {"throw", "malformed", "null"} THEN categorizeFallback
    ELSE LET result == IF reply.kind = "empty"
                       THEN [category |-> Undefined, confidence |-> [t |-> "undefined"],
                             reasoning |-> Undefined]
                       ELSE reply.json
         IN  [category   |-> IF Truthy(result.category) THEN result.category ELSE "shopping",
              confidence |-> MathMax(Zero, MathMin(One, ConfidenceOrDefault(result.confidence))),
              reasoning  |-> IF Truthy(result.reasoning) THEN result.reasoning
                             ELSE "AI categorization based on description"]

\* A JavaScript value met in the analysis of generateInsights: a number, or a
\* text (a function of Object.prototype, or the string that + makes of it), which
\* is truthy and NaN wherever a number is wanted
JsNum(v) == [t |-> "num", v |-> v]
JsText == [t |-> "text", v |-> NaN]
JsTruthy(x) == x.t = "text" \/ (~x.v.nan /\ x.v.mag # ZeroMag)

\* the properties every {} inherits
ObjectPrototypeKeys ==
    {"constructor", "toString", "toLocaleString", "valueOf", "hasOwnProperty",
     "isPrototypeOf", "propertyIsEnumerable"}

\* acc[key] || 0 on an object acc that started as {}
OrZero(acc, key) ==
    IF key \in DOMAIN acc THEN (IF JsTruthy(acc[key]) THEN acc[key] ELSE JsNum(Zero))
    ELSE IF key \in ObjectPrototypeKeys THEN JsText
    ELSE JsNum(Zero)

\* x + amount for a number amount
JsPlus(x, amount) == IF x.t = "num" THEN JsNum(F64Add(x.v, amount)) ELSE JsText

\* list.reduce((acc, exp) => { acc[exp.categoryName] = (acc[exp.categoryName] || 0)
\* + exp.amount; return acc }, {})
RECURSIVE CategoryTotals(_)
CategoryTotals(list) ==
    IF Len(list) = 0 THEN << >>
    ELSE LET acc == CategoryTotals(SubSeq(list, 1, Len(list) - 1))
             exp == list[Len(list)]
         IN  [k \in DOMAIN acc \cup {exp.categoryName} |->
                 IF k = exp.categoryName THEN JsPlus(OrZero(acc, k), exp.amount) ELSE acc[k]]

\* Object.keys of the totals: the category names in the order of their first expense
RECURSIVE CategoryKeys(_)
CategoryKeys(list) ==
    IF Len(list) = 0 THEN << >>
    ELSE LET keys == CategoryKeys(SubSeq(list, 1, Len(list) - 1))
             name == list[Len(list)].categoryName
         IN  IF \E i \in 1..Len(keys) : keys[i] = name THEN keys ELSE Append(keys, name)

Hundred == F64(FALSE, <<0, 0, 0, 1600>>)
Twenty == F64(FALSE, <<0, 0, 0, 320>>)

categoryTrends(expenses_, previousMonthExpenses) ==
    LET currentCategories  == CategoryTotals(expenses_)
        previousCategories == CategoryTotals(previousMonthExpenses)
        keys               == CategoryKeys(expenses_)
    IN  [i \in 1..Len(keys) |->
            LET current  == OrZero(currentCategories, keys[i])
                previous == OrZero(previousCategories, keys[i])
            IN  [category |-> keys[i], current |-> current, previous |-> previous,
                 change   |-> IF F64Less(Zero, previous.v)
                              THEN F64Mul(F64Div(F64Sub(current.v, previous.v), previous.v),
                                          Hundred)
                              ELSE Zero]]

budgetAnalysis(expenses_, budgets_) ==
    LET currentCategories == CategoryTotals(expenses_)
    IN  [i \in 1..Len(budgets_) |->
            LET budget == budgets_[i]
                spent  == OrZero(currentCategories, budget.categoryName)
            IN  [category     |-> budget.categoryName,
                 budget       |-> budget.amount,
                 spent        |-> spent,
                 remaining    |-> F64Sub(budget.amount, spent.v),
                 utilization  |-> IF F64Less(Zero, budget.amount)
                                  THEN F64Mul(F64Div(spent.v, budget.amount), Hundred)
                                  ELSE Zero,
                 isOverBudget |-> F64Less(budget.amount, spent.v)]]

\* the test of categoryTrends.filter
ChangeOverThreshold(trend) == F64Less(Twenty, trend.change)

savingsOpportunities(trends) ==
    LET kept == SelectSeq(trends, ChangeOverThreshold)
    IN  [i \in 1..Len(kept) |->
            [category        |-> kept[i].category,
             increase        |-> kept[i].change,
             currentSpend    |-> kept[i].current,
             potentialSaving |-> F64Mul(kept[i].current.v, parseFloat("0.15"))]]

\* the part of expenseSummary that the analysis computes
expenseSummary(expenses_, previousMonthExpenses, budgets_) ==
    [trends               |-> categoryTrends(expenses_, previousMonthExpenses),
     budgetAnalysis       |-> budgetAnalysis(expenses_, budgets_),
     savingsOpportunities |-> savingsOpportunities(categoryTrends(expenses_, previousMonthExpenses))]

InsightTypes == {"alert", "goal", "warning", "recommendation"}
InsightPriorities == {"low", "medium", "high"}

\* a fallback that returns no insight
insightsFallbackNone == << >>

insightsFallback ==
    << [type |-> "recommendation", title |-> "Track Your Expenses",
        description |-> "Continue logging your expenses to get personalized AI insights and recommendations.",
        priority |-> "medium"] >>

\* a callback that copies type and priority without the includes() checks
MapInsightUnchecked(insight) ==
    [type        |-> insight.type,
     title       |-> IF Truthy(insight.title) THEN insight.title ELSE "Financial Insight",
     description |-> IF Truthy(insight.description) THEN insight.description
                     ELSE "Review your spending patterns for better financial health.",
     priority    |-> insight.priority]

\* the callback of (result.insights || []).map
MapInsight(insight) ==
    [type        |-> IF insight.type \in InsightTypes THEN insight.type ELSE "recommendation",
     title       |-> IF Truthy(insight.title) THEN insight.title ELSE "Financial Insight",
     description |-> IF Truthy(insight.description) THEN insight.description
                     ELSE "Review your spending patterns for better financial health.",
     priority    |-> IF insight.priority \in InsightPriorities THEN insight.priority ELSE "medium"]

\* reply.json.insights is [t |-> "undefined"], [t |-> "notArray"] (a JSON value
\* without .map) or [t |-> "array", v |-> entries]; an entry with isNull is the
\* JSON null, whose .type throws
generateInsights(expenses_, previousMonthExpenses, budgets_, reply) ==
    IF reply.kind \in {"throw", "malformed", "null"} THEN insightsFallback
    ELSE IF reply.kind = "empty" THEN << >>
    ELSE IF reply.json.insights.t = "undefined" THEN << >>
    ELSE IF reply.json.insights.t = "notArray" THEN insightsFallback
    ELSE IF \E i \in 1..Len(reply.json.insights.v) : reply.json.insights.v[i].isNull
         THEN insightsFallback
    ELSE [i \in 1..Len(reply.json.insights.v) |-> MapInsight(reply.json.insights.v[i])]

(************************** server/storage.ts *******************************)
SetMax(S) == CHOOSE m \in S : \A x \in S : x <= m

Remove(f, id) == [k \in DOMAIN f \ {id} |-> f[k]]
Insert(f, id, doc) == [k \in DOMAIN f \cup {id} |-> IF k = id THEN doc ELSE f[k]]

\* the Number cast of the models' amount field: save() and findByIdAndUpdate()
\* reject a value that is no number
ModelAcceptsAmount(v) == ~v.nan

\* MongoStorage.createExpense: the document that save() stores
createExpense(expense) ==
    [userId     |-> expense.userId,
     categoryId |-> expense.categoryId,
     amount     |-> parseFloat(expense.amount),
     date       |-> expense.date]

\* MongoStorage.updateExpense: the document after findByIdAndUpdate(id, updateData)
updateExpense(doc, expense) ==
    [userId     |-> IF "userId" \in DOMAIN expense THEN expense.userId ELSE doc.userId,
     categoryId |-> IF "categoryId" \in DOMAIN expense THEN expense.categoryId
                    ELSE doc.categoryId,
     amount     |-> IF "amount" \in DOMAIN expense /\ Len(expense.amount) > 0
                    THEN parseFloat(expense.amount) ELSE doc.amount,
     date       |-> IF "date" \in DOMAIN expense THEN expense.date ELSE doc.date]

\* MongoStorage.createBudget
createBudget(budget) ==
    [userId     |-> budget.userId,
     categoryId |-> budget.categoryId,
     amount     |-> parseFloat(budget.amount)]

\* MongoStorage.createInsight
createInsight(insight) ==
    [userId |-> insight.userId, type |-> insight.type, title |-> insight.title,
     description |-> insight.description, priority |-> insight.priority,
     isRead |-> insight.isRead]

\* an update that flips isRead
markInsightAsReadToggle(coll, id) ==
    IF id \in DOMAIN coll
    THEN [coll EXCEPT ![id].isRead = IF @ = "true" THEN "false" ELSE "true"]
    ELSE coll

\* MongoStorage.markInsightAsRead: findByIdAndUpdate(id, { isRead: "true" })
markInsightAsRead(coll, id) ==
    IF id \in DOMAIN coll THEN [coll EXCEPT ![id].isRead = "true"] ELSE coll

\* the $match stage of the three pipelines of getExpenseStats
MatchStage(coll, userId, startDate, endDate) ==
    {id \in DOMAIN coll : /\ coll[id].userId = userId
                          /\ coll[id].date >= startDate
                          /\ coll[id].date <= endDate}

\* the documents ids as find().sort({ date: -1, createdAt: -1 }) returns them
RECURSIVE SortedByDate(_, _)
SortedByDate(coll, ids) ==
    IF ids = {} THEN << >>
    ELSE LET first == CHOOSE id \in ids : \A o \in ids :
                          \/ coll[o].date < coll[id].date
                          \/ (coll[o].date = coll[id].date /\ o <= id)
         IN  <<first>> \o SortedByDate(coll, ids \ {first})

\* the category: null of an ExpenseWithCategory
NoCategory == [isNull |-> TRUE]

\* MongoStorage.getExpensesByUserAndDateRange: each expense with the category
\* that CategoryModel.findById finds for it
getExpensesByUserAndDateRange(coll, cats, userId, startDate, endDate) ==
    LET WithCategory(id, expense) ==
            [id |-> id, userId |-> expense.userId, categoryId |-> expense.categoryId,
             amount |-> expense.amount, date |-> expense.date,
             category |-> IF expense.categoryId # Null /\ expense.categoryId \in DOMAIN cats
                          THEN [isNull |-> FALSE, id |-> expense.categoryId,
                                name |-> cats[expense.categoryId].name,
                                color |-> cats[expense.categoryId].color]
                          ELSE NoCategory]
        Each(q) == [i \in 1..Len(q) |-> WithCategory(q[i], coll[q[i]])]
    IN  Each(SortedByDate(coll, MatchStage(coll, userId, startDate, endDate)))

\* MongoStorage.getBudgetsByUser: find({ userId }).sort({ createdAt: -1 })
RECURSIVE getBudgetsByUser(_, _)
getBudgetsByUser(coll, userId) ==
    LET ids == {id \in DOMAIN coll : coll[id].userId = userId}
    IN  IF ids = {} THEN << >>
        ELSE <<[coll[SetMax(ids)] EXCEPT !.userId = userId]>> \o
             getBudgetsByUser(Remove(coll, SetMax(ids)), userId)

\* { $sum: "$amount" } over the documents ids, in the order of their _id
RECURSIVE SumAmount(_, _)
SumAmount(coll, ids) ==
    IF ids = {} THEN Zero
    ELSE F64Add(SumAmount(coll, ids \ {SetMax(ids)}), coll[SetMax(ids)].amount)

\* totalResult[0]?.total || 0
TotalSpent(coll, userId, startDate, endDate) ==
    LET ids   == MatchStage(coll, userId, startDate, endDate)
        total == SumAmount(coll, ids)
    IN  IF ids = {} \/ total.nan \/ total.mag = ZeroMag THEN Zero ELSE total

\* $group by "$categoryId": one {_id, amount} per categoryId among the matches
CategoryGroups(coll, userId, startDate, endDate) ==
    LET ids == MatchStage(coll, userId, startDate, endDate)
    IN  {[_id    |-> c,
          amount |-> SumAmount(coll, {id \in ids : coll[id].categoryId = c})] :
            c \in {coll[id].categoryId : id \in ids}}

\* a sort with the key's sign flipped: $sort: { amount: 1 }
SortedByAmountAsc(items) ==
    \A i \in 1..Len(items) : \A j \in 1..Len(items) :
        i < j => ~F64Less(items[j].amount, items[i].amount)

\* $sort: { amount: -1 } leaves no later item with a greater amount
SortedByAmount(items) ==
    \A i \in 1..Len(items) : \A j \in 1..Len(items) :
        i < j => ~F64Less(items[i].amount, items[j].amount)

Orderings(S) ==
    {q \in [1..Cardinality(S) -> S] : \A i, j \in 1..Cardinality(S) : i # j => q[i] # q[j]}

\* the results the category pipeline may return (MongoDB leaves the order of
\* equal sort keys open)
CategoryResults(coll, userId, startDate, endDate) ==
    {q \in Orderings(CategoryGroups(coll, userId, startDate, endDate)) : SortedByAmount(q)}

\* one pass of the loop over categoryResult: the entry pushed for item
BreakdownEntry(cats, item) ==
    IF item._id # Null /\ item._id \in DOMAIN cats
    THEN [categoryName |-> cats[item._id].name, amount |-> item.amount,
          color |-> cats[item._id].color]
    ELSE [categoryName |-> "Uncategorized", amount |-> item.amount, color |-> "#6b7280"]

\* $group by "$date", $sort: { _id: 1 }, mapped to {date, amount}
RECURSIVE DailyFrom(_, _, _)
DailyFrom(coll, ids, dates) ==
    IF dates = {} THEN << >>
    ELSE Append(DailyFrom(coll, ids, dates \ {SetMax(dates)}),
                [date   |-> SetMax(dates),
                 amount |-> SumAmount(coll, {id \in ids : coll[id].date = SetMax(dates)})])

DailyTrend(coll, userId, startDate, endDate) ==
    LET ids == MatchStage(coll, userId, startDate, endDate)
    IN  DailyFrom(coll, ids, {coll[id].date : id \in ids})

\* the characters of the category names used, in code-point order
Alphabet == " &ABCDEFGHIJKLMNOPQRSTUVWXYZabcdefghijklmnopqrstuvwxyz"
CharCode(c) == CHOOSE i \in 1..Len(Alphabet) : CharAt(Alphabet, i) = c

\* a sorts before b in MongoDB's binary string order
RECURSIVE StrLess(_, _)
StrLess(a, b) ==
    IF Len(b) = 0 THEN FALSE
    ELSE IF Len(a) = 0 THEN TRUE
    ELSE IF CharAt(a, 1) # CharAt(b, 1) THEN CharCode(CharAt(a, 1)) < CharCode(CharAt(b, 1))
    ELSE StrLess(SubSeq(a, 2, Len(a)), SubSeq(b, 2, Len(b)))

\* MongoStorage.getCategories: find().sort({ name: 1 }), as the orders it may return
getCategories(cats) ==
    {q \in Orderings(DOMAIN cats) :
        \A i, j \in 1..Len(q) : i < j => ~StrLess(cats[q[j]].name, cats[q[i]].name)}

(*************************** server/routes.ts *******************************)
IdleCall ==
    [pc |-> "idle", userId |-> "", startDate |-> 0, endDate |-> 0, totalSpent |-> Zero,
     categoryResult |-> << >>, categoryBreakdown |-> << >>, dailyTrend |-> << >>]

InFlight == call.pc \in {"category", "lookup"}

\* history of a write to the expense collection
Wrote(coll) ==
    /\ seen' = IF InFlight THEN seen \cup {coll} ELSE seen
    /\ writes' = IF InFlight THEN writes + 1 ELSE writes

NoWrite == UNCHANGED <<seen, writes>>

\* insertExpenseSchema.parse / .partial().parse on the fields modelled
ValidExpenseFields(body) ==
    /\ "amount" \in DOMAIN body => Len(body.amount) >= 1
    /\ "description" \in DOMAIN body => Len(body.description) >= 1 /\ Len(body.description) <= 500

\* categories.find(cat => cat.name.toLowerCase().includes(label)) on the list q:
\* the _id of the first match, Null when there is none
FindCategory(cats, q, label) ==
    LET hits == {i \in 1..Len(q) : includes(toLowerCase(cats[q[i]].name), label)}
    IN  IF hits = {} THEN Null ELSE q[CHOOSE i \in hits : \A j \in hits : i <= j]

\* matchedCategory?.name || 'Unknown' for the matchedCategory of _id id
SuggestedName(cats, id) == IF id = Null THEN "Unknown" ELSE cats[id].name

\* POST /api/expenses by user u with body; reply is what the AI service answers
PostExpenses(u, body, reply) ==
    /\ nextId.expense <= MaxExpenses
    /\ UNCHANGED <<categories, budgets, insights, call, ai, pending>>
    /\ IF ~({"userId", "amount", "description", "date"} \subseteq DOMAIN body
            /\ ValidExpenseFields(body))
       THEN /\ resp' = 400
            /\ UNCHANGED <<expenses, nextId>>
            /\ NoWrite
       ELSE \E q \in getCategories(categories) :
            LET categorization == categorizeExpense(body.description, parseFloat(body.amount), reply)
                categoryId == IF "categoryId" \in DOMAIN body /\ body.categoryId # Null
                              THEN body.categoryId
                              ELSE FindCategory(categories, q, categorization.category)
                doc == createExpense([userId |-> u, categoryId |-> categoryId,
                                      amount |-> body.amount, date |-> body.date])
            IN  IF ModelAcceptsAmount(doc.amount)
                THEN /\ expenses' = Insert(expenses, nextId.expense, doc)
                     /\ nextId' = [nextId EXCEPT !.expense = @ + 1]
                     /\ resp' = 200
                     /\ Wrote(expenses')
                ELSE /\ resp' = 500
                     /\ UNCHANGED <<expenses, nextId>>
                     /\ NoWrite

\* PUT /api/expenses/:id by user u
PutExpense(u, id, body) ==
    /\ UNCHANGED <<categories, budgets, insights, nextId, call, ai, pending>>
    /\ IF ~ValidExpenseFields(body)
       THEN /\ resp' = 400
            /\ UNCHANGED expenses
            /\ NoWrite
       ELSE IF id \in DOMAIN expenses /\ ModelAcceptsAmount(updateExpense(expenses[id], body).amount)
       THEN /\ expenses' = [expenses EXCEPT ![id] = updateExpense(expenses[id], body)]
            /\ resp' = 200
            /\ Wrote(expenses')
       ELSE /\ resp' = 500
            /\ UNCHANGED expenses
            /\ NoWrite

\* DELETE /api/expenses/:id by user u
DeleteExpense(u, id) ==
    /\ expenses' = Remove(expenses, id)
    /\ resp' = 200
    /\ Wrote(expenses')
    /\ UNCHANGED <<categories, budgets, insights, nextId, call, ai, pending>>

\* POST /api/categories
PostCategories(u, body) ==
    /\ nextId.category <= MaxCategories
    /\ NoWrite
    /\ UNCHANGED <<expenses, budgets, insights, call, ai, pending>>
    /\ IF {"name", "color"} \subseteq DOMAIN body
       THEN /\ categories' = Insert(categories, nextId.category,
                                    [name |-> body.name, color |-> body.color])
            /\ nextId' = [nextId EXCEPT !.category = @ + 1]
            /\ resp' = 200
       ELSE /\ resp' = 400
            /\ UNCHANGED <<categories, nextId>>

\* a delete that cleans up after the category: it clears the categoryId of the
\* expenses that referenced it and deletes the budgets attached to it
DeleteCategoryCascade(u, id) ==
    /\ categories' = Remove(categories, id)
    /\ expenses' = [k \in DOMAIN expenses |->
                       IF expenses[k].categoryId = id
                       THEN [expenses[k] EXCEPT !.categoryId = Null] ELSE expenses[k]]
    /\ budgets' = [k \in {b \in DOMAIN budgets : budgets[b].categoryId # id} |-> budgets[k]]
    /\ resp' = 200
    /\ NoWrite
    /\ UNCHANGED <<insights, nextId, call, ai, pending>>

\* DELETE /api/categories/:id
DeleteCategory(u, id) ==
    /\ categories' = Remove(categories, id)
    /\ resp' = 200
    /\ NoWrite
    /\ UNCHANGED <<expenses, budgets, insights, nextId, call, ai, pending>>

\* a handler without the check of the two dates: getExpenseStats is called with
\* the absent date
GetStatsUnchecked(u) ==
    /\ call.pc = "idle"
    /\ call' = [IdleCall EXCEPT !.pc = "category", !.userId = u]
    /\ seen' = {expenses}
    /\ writes' = 0
    /\ resp' = 0
    /\ UNCHANGED <<expenses, categories, budgets, insights, nextId, ai, pending>>

\* GET /api/analytics/stats without startDate or endDate
GetStatsBadRequest(u) ==
    /\ call.pc = "idle"
    /\ resp' = 400
    /\ UNCHANGED <<expenses, categories, budgets, insights, nextId, call, seen, writes, ai, pending>>

\* GET /api/analytics/stats by user u: getExpenseStats up to its first pipeline
GetStatsTotal(u, startDate, endDate) ==
    /\ call.pc = "idle"
    /\ call' = [IdleCall EXCEPT !.pc = "category", !.userId = u, !.startDate = startDate,
                                !.endDate = endDate,
                                !.totalSpent = TotalSpent(expenses, u, startDate, endDate)]
    /\ seen' = {expenses}
    /\ writes' = 0
    /\ resp' = 0
    /\ UNCHANGED <<expenses, categories, budgets, insights, nextId, ai, pending>>

\* getExpenseStats: the category pipeline
GetStatsCategory ==
    /\ call.pc = "category"
    /\ \E q \in CategoryResults(expenses, call.userId, call.startDate, call.endDate) :
           call' = [call EXCEPT !.pc = "lookup", !.categoryResult = q]
    /\ UNCHANGED <<expenses, categories, budgets, insights, nextId, resp, seen, writes, ai, pending>>

\* getExpenseStats: one pass of the loop, with its CategoryModel.findById
GetStatsLookup ==
    /\ call.pc = "lookup"
    /\ Len(call.categoryBreakdown) < Len(call.categoryResult)
    /\ call' = [call EXCEPT !.categoryBreakdown =
                   Append(@, BreakdownEntry(categories,
                                            call.categoryResult[Len(call.categoryBreakdown) + 1]))]
    /\ UNCHANGED <<expenses, categories, budgets, insights, nextId, resp, seen, writes, ai, pending>>

\* getExpenseStats: the daily pipeline; the call has its result
GetStatsDaily ==
    /\ call.pc = "lookup"
    /\ Len(call.categoryBreakdown) = Len(call.categoryResult)
    /\ call' = [call EXCEPT !.pc = "done",
                            !.dailyTrend = DailyTrend(expenses, call.userId, call.startDate,
                                                      call.endDate)]
    /\ UNCHANGED <<expenses, categories, budgets, insights, nextId, resp, seen, writes, ai, pending>>

\* res.json(stats)
GetStatsRespond ==
    /\ call.pc = "done"
    /\ call' = IdleCall
    /\ resp' = 200
    /\ seen' = {}
    /\ writes' = 0
    /\ UNCHANGED <<expenses, categories, budgets, insights, nextId, ai, pending>>

\* POST /api/budgets by user u
PostBudgets(u, body) ==
    /\ nextId.budget <= MaxBudgets
    /\ NoWrite
    /\ UNCHANGED <<expenses, categories, insights, call, ai, pending>>
    /\ IF ~({"userId", "amount", "startDate", "endDate"} \subseteq DOMAIN body)
       THEN /\ resp' = 400
            /\ UNCHANGED <<budgets, nextId>>
       ELSE LET doc == createBudget([userId |-> u,
                                     categoryId |-> IF "categoryId" \in DOMAIN body
                                                    THEN body.categoryId ELSE Null,
                                     amount |-> body.amount])
            IN  IF ModelAcceptsAmount(doc.amount)
                THEN /\ budgets' = Insert(budgets, nextId.budget, doc)
                     /\ nextId' = [nextId EXCEPT !.budget = @ + 1]
                     /\ resp' = 200
                ELSE /\ resp' = 500
                     /\ UNCHANGED <<budgets, nextId>>

\* DELETE /api/budgets/:id by user u
DeleteBudget(u, id) ==
    /\ budgets' = Remove(budgets, id)
    /\ resp' = 200
    /\ NoWrite
    /\ UNCHANGED <<expenses, categories, insights, nextId, call, ai, pending>>

\* the documents Promise.all(aiInsights.map(createInsight)) saves, from _id first on
RECURSIVE SaveInsights(_, _, _, _)
SaveInsights(coll, first, u, aiInsights) ==
    IF Len(aiInsights) = 0 THEN coll
    ELSE SaveInsights(
            Insert(coll, first,
                   createInsight([userId |-> u, type |-> Head(aiInsights).type,
                                  title |-> Head(aiInsights).title,
                                  description |-> Head(aiInsights).description,
                                  priority |-> Head(aiInsights).priority,
                                  isRead |-> "false"])),
            first + 1, u, Tail(aiInsights))

\* currentExpenses.map(exp => ({ amount: parseFloat(exp.amount), categoryName:
\* exp.category?.name || 'Uncategorized', ... })); exp.amount is a number, which
\* parseFloat turns into its shortest decimal text and back into the same number
Formatted(list) ==
    [i \in 1..Len(list) |->
        [amount |-> list[i].amount,
         categoryName |-> IF ~list[i].category.isNull /\ Truthy(list[i].category.name)
                          THEN list[i].category.name ELSE "Uncategorized",
         date |-> list[i].date]]

\* budgets.map(budget => ({ categoryName: budget.categoryId || 'General', amount:
\* parseFloat(budget.amount) })); the text of a categoryId is that of its number
FormattedBudgets(list) ==
    [i \in 1..Len(list) |->
        [categoryName |-> IF list[i].categoryId # Null THEN ToString(list[i].categoryId)
                          ELSE "General",
         amount |-> list[i].amount]]

\* the three arguments that the handler of /api/insights/generate passes for user u
GenerateArguments(u) ==
    [current  |-> Formatted(getExpensesByUserAndDateRange(expenses, categories, u,
                                                          CurrentMonth[1], CurrentMonth[2])),
     previous |-> Formatted(getExpensesByUserAndDateRange(expenses, categories, u,
                                                          PreviousMonth[1], PreviousMonth[2])),
     budgets  |-> FormattedBudgets(getBudgetsByUser(budgets, u))]

\* POST /api/insights/generate by user u; reply is what the AI service answers
PostInsightsGenerate(u, reply) ==
    LET args       == GenerateArguments(u)
        aiInsights == generateInsights(args.current, args.previous, args.budgets, reply)
    IN  /\ nextId.insight + Len(aiInsights) <= MaxInsights + 1
        /\ ai' = [fn |-> "generateInsights", reply |-> reply, result |-> aiInsights,
                  budgetAnalysis |-> budgetAnalysis(args.current, args.budgets)]
        /\ insights' = SaveInsights(insights, nextId.insight, u, aiInsights)
        /\ nextId' = [nextId EXCEPT !.insight = @ + Len(aiInsights)]
        /\ resp' = 200
        /\ NoWrite
        /\ UNCHANGED <<expenses, categories, budgets, call, pending>>

\* POST /api/insights/generate as the steps of one run r of the handler.  The
\* insights that the runs in flight have still to save:
Unsaved ==
    Cardinality({x \in (DOMAIN pending) \X (1..MaxInsights) :
                    /\ pending[x[1]].fn = "generate"
                    /\ x[2] <= Len(pending[x[1]].aiInsights)
                    /\ x[2] \notin DOMAIN pending[x[1]].savedInsights})

\* the run up to the return of generateInsights; reply is what the AI service
\* answers.  The field with is history: the runs in flight when r starts
GenerateStart(r, u, reply) ==
    LET args       == GenerateArguments(u)
        aiInsights == generateInsights(args.current, args.previous, args.budgets, reply)
    IN  /\ r \notin DOMAIN pending
        /\ nextId.insight + Unsaved + Len(aiInsights) <= MaxInsights + 1
        /\ pending' = Insert(pending, r,
                             [fn |-> "generate", pc |-> "saving", userId |-> u,
                              aiInsights |-> aiInsights, savedInsights |-> << >>,
                              with |-> {t \in DOMAIN pending : pending[t].pc # "done"}])
        /\ ai' = [fn |-> "generateInsights", reply |-> reply, result |-> aiInsights,
                  budgetAnalysis |-> budgetAnalysis(args.current, args.budgets)]
        /\ NoWrite
        /\ UNCHANGED <<expenses, categories, budgets, insights, nextId, call, resp>>

\* a save that skips an insight whose title the user already has stored
GenerateSaveDeduplicated(r, i) ==
    /\ r \in DOMAIN pending
    /\ pending[r].fn = "generate" /\ pending[r].pc = "saving"
    /\ i \in 1..Len(pending[r].aiInsights) /\ i \notin DOMAIN pending[r].savedInsights
    /\ LET same == {id \in DOMAIN insights :
                        /\ insights[id].userId = pending[r].userId
                        /\ insights[id].title = pending[r].aiInsights[i].title}
       IN  IF same = {}
           THEN /\ insights' = SaveInsights(insights, nextId.insight, pending[r].userId,
                                            <<pending[r].aiInsights[i]>>)
                /\ nextId' = [nextId EXCEPT !.insight = @ + 1]
                /\ pending' = [pending EXCEPT ![r].savedInsights = Insert(@, i, nextId.insight)]
           ELSE /\ pending' = [pending EXCEPT ![r].savedInsights = Insert(@, i, SetMax(same))]
                /\ UNCHANGED <<insights, nextId>>
    /\ NoWrite
    /\ UNCHANGED <<expenses, categories, budgets, call, resp, ai>>

\* one storage.createInsight of Promise.all(aiInsights.map(...)): the save of
\* the i-th insight of run r; the saves of a run and of the runs complete in any order
GenerateSave(r, i) ==
    /\ r \in DOMAIN pending
    /\ pending[r].fn = "generate" /\ pending[r].pc = "saving"
    /\ i \in 1..Len(pending[r].aiInsights) /\ i \notin DOMAIN pending[r].savedInsights
    /\ insights' = SaveInsights(insights, nextId.insight, pending[r].userId,
                                <<pending[r].aiInsights[i]>>)
    /\ nextId' = [nextId EXCEPT !.insight = @ + 1]
    /\ pending' = [pending EXCEPT ![r].savedInsights = Insert(@, i, nextId.insight)]
    /\ NoWrite
    /\ UNCHANGED <<expenses, categories, budgets, call, resp, ai>>

\* res.json(savedInsights) of run r
GenerateRespond(r) ==
    /\ r \in DOMAIN pending
    /\ pending[r].fn = "generate" /\ pending[r].pc = "saving"
    /\ DOMAIN pending[r].savedInsights = 1..Len(pending[r].aiInsights)
    /\ pending' = [pending EXCEPT ![r].pc = "done"]
    /\ resp' = 200
    /\ NoWrite
    /\ UNCHANGED <<expenses, categories, budgets, insights, nextId, call, ai>>

\* a handler that marks every insight of the collection
PutInsightReadAll(u, id) ==
    /\ insights' = [k \in DOMAIN insights |-> [insights[k] EXCEPT !.isRead = "true"]]
    /\ resp' = 200
    /\ NoWrite
    /\ UNCHANGED <<expenses, categories, budgets, nextId, call, ai, pending>>

\* PUT /api/insights/:id/read by user u
PutInsightRead(u, id) ==
    /\ insights' = markInsightAsRead(insights, id)
    /\ resp' = 200
    /\ NoWrite
    /\ UNCHANGED <<expenses, categories, budgets, nextId, call, ai, pending>>

\* a handler of /api/ai/categorize that lets a failure of the AI call through
\* to its own catch
CallCategorizeExpenseUncaught(body, reply) ==
    /\ UNCHANGED <<expenses, categories, budgets, insights, nextId, call, seen, writes, pending>>
    /\ IF ~Truthy(body.description)
       THEN resp' = 400 /\ UNCHANGED ai
       ELSE IF reply.kind \in {"throw", "malformed", "null"}
       THEN resp' = 500 /\ UNCHANGED ai
       ELSE \E q \in getCategories(categories) :
            LET categorization == categorizeExpense(body.description, body.amount, reply)
            IN  /\ ai' = [fn |-> "categorizeExpense", reply |-> reply,
                          result |-> categorization,
                          suggestedCategoryId |->
                              FindCategory(categories, q, categorization.category),
                          suggestedCategoryName |->
                              SuggestedName(categories,
                                            FindCategory(categories, q, categorization.category))]
                /\ resp' = 200

\* POST /api/ai/categorize with body; reply is what the AI service answers
CallCategorizeExpense(body, reply) ==
    /\ UNCHANGED <<expenses, categories, budgets, insights, nextId, call, seen, writes, pending>>
    /\ IF ~Truthy(body.description)
       THEN resp' = 400 /\ UNCHANGED ai
       ELSE \E q \in getCategories(categories) :
            LET categorization == categorizeExpense(body.description, body.amount, reply)
            IN  /\ ai' = [fn |-> "categorizeExpense", reply |-> reply,
                          result |-> categorization,
                          suggestedCategoryId |->
                              FindCategory(categories, q, categorization.category),
                          suggestedCategoryName |->
                              SuggestedName(categories,
                                            FindCategory(categories, q, categorization.category))]
                /\ resp' = 200

\* the two routes of the insights that change the store, as registerRoutes
\* registers them: <<method, path>>
GenerateRoute == <<"POST", "/api/insights/generate">>
ReadRoute == <<"PUT", "/api/insights/:id/read">>

\* Express's routing of a request of user u: the handler registered for the
\* method and the path runs; a request that matches no route runs none and is
\* answered by what follows the routes (the 404 of Express, or the page of the
\* client's catch-all with 200)
Dispatch(method, path, u, id, reply) ==
    IF <<method, path>> = GenerateRoute THEN PostInsightsGenerate(u, reply)
    ELSE IF <<method, path>> = ReadRoute THEN PutInsightRead(u, id)
    ELSE /\ resp' \in {404, 200}
         /\ NoWrite
         /\ UNCHANGED <<expenses, categories, budgets, insights, nextId, call, ai, pending>>

(******************* client/src/components/ai-insights.tsx ******************)
\* generateInsightsMutation: apiRequest("POST", "/api/insights/generate")
ClientGenerateInsights(u, reply) == Dispatch("POST", "/api/insights/generate", u, Null, reply)

\* the "Mark as Read" button, rendered for an insight with isRead "false":
\* markInsightReadMutation sends apiRequest("POST", `/api/insights/${id}/read`)
ClientMarkAsRead(u, id) ==
    /\ id \in DOMAIN insights
    /\ insights[id].userId = u
    /\ insights[id].isRead = "false"
    /\ Dispatch("POST", "/api/insights/:id/read", u, id, [kind |-> "throw"])

\* the names and colors of defaultCategories, in the order of the loop
defaultCategories ==
    << [name |-> "Food & Dining", color |-> "#ef4444"],
       [name |-> "Transportation", color |-> "#3b82f6"],
       [name |-> "Shopping", color |-> "#10b981"],
       [name |-> "Entertainment", color |-> "#f59e0b"],
       [name |-> "Bills & Utilities", color |-> "#8b5cf6"],
       [name |-> "Healthcare", color |-> "#ec4899"],
       [name |-> "Education", color |-> "#06b6d4"],
       [name |-> "Travel", color |-> "#84cc16"] >>

\* initializeDefaultCategories as the steps of one run r (a server start): its
\* call of getCategories, which returns the stored categories, or [] from its
\* catch when the find fails (failed); only the length of the list is used
InitializeStart(r, failed) ==
    /\ r \notin DOMAIN pending
    /\ pending' = Insert(pending, r,
                         [fn |-> "initializeDefaultCategories",
                          pc |-> IF failed \/ Cardinality(DOMAIN categories) = 0
                                 THEN "creating" ELSE "done",
                          next |-> 1])
    /\ NoWrite
    /\ UNCHANGED <<expenses, categories, budgets, insights, nextId, call, resp, ai>>

\* one pass of the loop: await storage.createCategory(category)
InitializeCreate(r) ==
    /\ r \in DOMAIN pending
    /\ pending[r].fn = "initializeDefaultCategories" /\ pending[r].pc = "creating"
    /\ categories' = Insert(categories, nextId.category, defaultCategories[pending[r].next])
    /\ nextId' = [nextId EXCEPT !.category = @ + 1]
    /\ pending' = [pending EXCEPT ![r].next = @ + 1,
                                  ![r].pc = IF pending[r].next = Len(defaultCategories)
                                            THEN "done" ELSE "creating"]
    /\ NoWrite
    /\ UNCHANGED <<expenses, budgets, insights, call, resp, ai>>

\* createCategory throws: the catch of initializeDefaultCategories ends the run
InitializeCatch(r) ==
    /\ r \in DOMAIN pending
    /\ pending[r].fn = "initializeDefaultCategories" /\ pending[r].pc = "creating"
    /\ pending' = [pending EXCEPT ![r].pc = "done"]
    /\ NoWrite
    /\ UNCHANGED <<expenses, categories, budgets, insights, nextId, call, resp, ai>>

(***************************** the inputs ***********************************)
Init ==
    /\ expenses = << >>
    /\ categories = << >>
    /\ budgets = << >>
    /\ insights = << >>
    /\ nextId = [expense |-> 1, category |-> 1, budget |-> 1, insight |-> 1]
    /\ call = IdleCall
    /\ resp = 0
    /\ seen = {}
    /\ writes = 0
    /\ ai = [fn |-> "none"]
    /\ pending = << >>

ExpenseBody(amount, date) ==
    [userId |-> "u1", amount |-> amount, description |-> "lunch", date |-> date]

\* request bodies of POST /api/expenses: without categoryId, with one, invalid
ExpenseBodies ==
    {ExpenseBody("0.10", 1),
     ExpenseBody("0.20", 2) @@ [categoryId |-> 1],
     ExpenseBody("0.30", 2) @@ [categoryId |-> 1],
     ExpenseBody("", 1)}

BodiesOf(u) == IF u = "u1" THEN ExpenseBodies ELSE {ExpenseBody("0.10", 1)}

CategoryReply(label) ==
    [kind |-> "object",
     json |-> [category |-> label, confidence |-> [t |-> "num", v |-> "0.95"],
               reasoning |-> "keywords"]]

PostReplies == {[kind |-> "throw"], CategoryReply("food")}

CategoryBodies == {[name |-> "Food & Dining", color |-> "#ef4444"]}

UpdateBodies == {[amount |-> "0.10"]}

DateRanges == {<<1, 2>>, <<1, 1>>, <<2, 2>>}

(****************** requests served one at a time ***************************)
SeqPostExpenses ==
    /\ call.pc = "idle"
    /\ \E u \in Users : \E body \in BodiesOf(u) : \E reply \in PostReplies :
           PostExpenses(u, body, reply)

SeqPutExpense ==
    /\ call.pc = "idle"
    /\ \E u \in Users : \E id \in 1..MaxExpenses : \E body \in UpdateBodies :
           PutExpense(u, id, body)

SeqDeleteExpense ==
    /\ call.pc = "idle"
    /\ \E u \in Users : \E id \in 1..MaxExpenses : DeleteExpense(u, id)

SeqPostCategories ==
    /\ call.pc = "idle"
    /\ \E u \in Users : \E body \in CategoryBodies : PostCategories(u, body)

SeqDeleteCategory ==
    /\ call.pc = "idle"
    /\ \E u \in Users : \E id \in 1..MaxCategories : DeleteCategory(u, id)

SeqGetStatsBadRequest == GetStatsBadRequest("u1")

SeqGetStatsTotal == \E r \in DateRanges : GetStatsTotal("u1", r[1], r[2])

Next ==
    \/ SeqPostExpenses
    \/ SeqPutExpense
    \/ SeqDeleteExpense
    \/ SeqPostCategories
    \/ SeqDeleteCategory
    \/ SeqGetStatsBadRequest
    \/ SeqGetStatsTotal
    \/ GetStatsCategory
    \/ GetStatsLookup
    \/ GetStatsDaily
    \/ GetStatsRespond

Spec == Init /\ [][Next]_vars

(************************ the aggregator's claims ***************************)
\* the decimal with three fractional digits nearest to v, in thousandths
ToMilli(v) ==
    LET t1 == v.mag[1] * 1000
        t2 == v.mag[2] * 1000 + (t1 \div Base)
        t3 == v.mag[3] * 1000 + (t2 \div Base)
        t4 == v.mag[4] * 1000 + (t3 \div Base)
        m  == (t4 \div 16) + (IF t4 % 16 >= 8 THEN 1 ELSE 0)
    IN  IF v.neg THEN 0 - m ELSE m

RECURSIVE MilliSum(_, _)
MilliSum(coll, ids) ==
    IF ids = {} THEN 0
    ELSE ToMilli(coll[SetMax(ids)].amount) + MilliSum(coll, ids \ {SetMax(ids)})

\* the number that the decimal sum of the amounts of the documents ids is
DecimalSum(coll, ids) ==
    LET m == MilliSum(coll, ids)
    IN  IF m < 0 THEN F64(TRUE, DecToMag(0 - m, 3)) ELSE F64(FALSE, DecToMag(m, 3))

\* the sum of the amounts of a list of entries, added from the first on
RECURSIVE SumEntries(_)
SumEntries(entries) ==
    IF Len(entries) = 0 THEN Zero
    ELSE F64Add(SumEntries(SubSeq(entries, 1, Len(entries) - 1)), entries[Len(entries)].amount)

Matching == MatchStage(expenses, call.userId, call.startDate, call.endDate)

\* C1: when getExpenseStats has its result, totalSpent is the exact (decimal) sum
\* of the amounts of the expenses of the user dated within [startDate, endDate],
\* and 0 when there is none.
C1_TotalSpentIsExactSum ==
    call.pc = "done" =>
        call.totalSpent = IF Matching = {} THEN Zero ELSE DecimalSum(expenses, Matching)

\* C2: with no write during the call, every matching expense is counted in exactly
\* one categoryBreakdown entry and the entries' amounts add up to totalSpent.
C2_BreakdownPartitionsTotal ==
    (call.pc = "done" /\ writes = 0) =>
        /\ \A id \in Matching :
               Cardinality({i \in 1..Len(call.categoryResult) :
                               call.categoryResult[i]._id = expenses[id].categoryId}) = 1
        /\ \A i \in 1..Len(call.categoryBreakdown) :
               call.categoryBreakdown[i].amount =
                   SumAmount(expenses, {id \in Matching :
                                           expenses[id].categoryId = call.categoryResult[i]._id})
        /\ SumEntries(call.categoryBreakdown) = call.totalSpent

\* C3: dailyTrend has one entry per distinct date of the matching expenses, each
\* with that date's sum, in strictly ascending date order, adding up to totalSpent.
C3_DailyTrendSumsToTotal ==
    call.pc = "done" =>
        /\ {call.dailyTrend[i].date : i \in 1..Len(call.dailyTrend)} =
               {expenses[id].date : id \in Matching}
        /\ \A i \in 1..Len(call.dailyTrend) :
               call.dailyTrend[i].amount =
                   SumAmount(expenses, {id \in Matching :
                                           expenses[id].date = call.dailyTrend[i].date})
        /\ \A i \in 1..(Len(call.dailyTrend) - 1) :
               call.dailyTrend[i].date < call.dailyTrend[i + 1].date
        /\ SumEntries(call.dailyTrend) = call.totalSpent

\* C4: no two categoryBreakdown entries of one result carry the same
\* categoryName, also when a category that expenses refer to has been deleted
\* (every categoryId in the store is that of a category once created).
C4_DistinctCategoryNames ==
    (/\ call.pc = "done"
     /\ \A id \in DOMAIN expenses : expenses[id].categoryId < nextId.category) =>
        \A i, j \in 1..Len(call.categoryBreakdown) :
            i # j => call.categoryBreakdown[i].categoryName # call.categoryBreakdown[j].categoryName

\* C5 as stated: each categoryBreakdown entry's amount is greater than the next one's.
C5_StrictlyDescending ==
    call.pc = "done" =>
        \A i \in 1..(Len(call.categoryBreakdown) - 1) :
            F64Less(call.categoryBreakdown[i + 1].amount, call.categoryBreakdown[i].amount)

\* C5 (amended): categoryBreakdown is sorted descending by amount, equal amounts
\* allowed: no entry's amount is less than that of a later entry.
C5_Descending ==
    call.pc = "done" =>
        \A i \in 1..Len(call.categoryBreakdown) : \A j \in 1..Len(call.categoryBreakdown) :
            i < j => ~F64Less(call.categoryBreakdown[i].amount, call.categoryBreakdown[j].amount)

C5_Witness ==
    /\ call.pc = "done"
    /\ Len(call.categoryBreakdown) = 2
    /\ call.categoryBreakdown[1].amount = call.categoryBreakdown[2].amount
    /\ call.categoryBreakdown[1].amount # Zero

(************* a getExpenseStats call racing expense writes *****************)
\* at most MaxInterleave writes are scheduled between the pipelines of one call
MayWrite == InFlight => writes < MaxInterleave

ConcPostExpenses ==
    /\ MayWrite
    /\ PostExpenses("u1", ExpenseBody("0.10", 1), [kind |-> "throw"])

ConcPutExpense ==
    /\ MayWrite
    /\ \E id \in 1..MaxExpenses : PutExpense("u1", id, [amount |-> "0.20"])

ConcDeleteExpense ==
    /\ MayWrite
    /\ \E id \in 1..MaxExpenses : DeleteExpense("u1", id)

ConcGetStatsTotal == GetStatsTotal("u1", 1, 2)

NextConc ==
    \/ ConcPostExpenses
    \/ ConcPutExpense
    \/ ConcDeleteExpense
    \/ ConcGetStatsTotal
    \/ GetStatsCategory
    \/ GetStatsLookup
    \/ GetStatsDaily
    \/ GetStatsRespond

SpecConc == Init /\ [][NextConc]_vars

\* C6: the result of a getExpenseStats call that expense writes interleave with
\* is that of one single state of the expense collection during the call, and
\* totalSpent, the categoryBreakdown amounts and the dailyTrend amounts add up
\* to the same.
C6_ConsistentSnapshot ==
    call.pc = "done" =>
        /\ \E coll \in seen :
              /\ call.totalSpent = TotalSpent(coll, call.userId, call.startDate, call.endDate)
              /\ call.categoryResult \in
                     CategoryResults(coll, call.userId, call.startDate, call.endDate)
              /\ call.dailyTrend = DailyTrend(coll, call.userId, call.startDate, call.endDate)
        /\ SumEntries(call.categoryBreakdown) = call.totalSpent
        /\ SumEntries(call.dailyTrend) = call.totalSpent

(******************* the requests of two users ******************************)
BudgetBodies ==
    {[userId |-> "u1", amount |-> "5.00", startDate |-> 1, endDate |-> 2, categoryId |-> 1]}

AccessPostExpenses(u) == PostExpenses(u, ExpenseBody("0.10", 1), [kind |-> "throw"])

AccessPutExpense(u) == \E id \in 1..MaxExpenses : PutExpense(u, id, [amount |-> "0.20"])

AccessDeleteExpense(u) == \E id \in 1..MaxExpenses : DeleteExpense(u, id)

AccessPostBudgets(u) == \E body \in BudgetBodies : PostBudgets(u, body)

AccessDeleteBudget(u) == \E id \in 1..MaxBudgets : DeleteBudget(u, id)

AccessPostInsightsGenerate(u) == PostInsightsGenerate(u, [kind |-> "throw"])

AccessPutInsightRead(u) == \E id \in 1..MaxInsights : PutInsightRead(u, id)

\* some request authenticated as user u
RequestBy(u) ==
    \/ AccessPostExpenses(u)
    \/ AccessPutExpense(u)
    \/ AccessDeleteExpense(u)
    \/ AccessPostBudgets(u)
    \/ AccessDeleteBudget(u)
    \/ AccessPostInsightsGenerate(u)
    \/ AccessPutInsightRead(u)

AnyPostExpenses == \E u \in Users : AccessPostExpenses(u)
AnyPutExpense == \E u \in Users : AccessPutExpense(u)
AnyDeleteExpense == \E u \in Users : AccessDeleteExpense(u)
AnyPostBudgets == \E u \in Users : AccessPostBudgets(u)
AnyDeleteBudget == \E u \in Users : AccessDeleteBudget(u)
AnyPostInsightsGenerate == \E u \in Users : AccessPostInsightsGenerate(u)
AnyPutInsightRead == \E u \in Users : AccessPutInsightRead(u)

NextAccess ==
    \/ AnyPostExpenses
    \/ AnyPutExpense
    \/ AnyDeleteExpense
    \/ AnyPostBudgets
    \/ AnyDeleteBudget
    \/ AnyPostInsightsGenerate
    \/ AnyPutInsightRead

SpecAccess == Init /\ [][NextAccess]_vars

Owned(coll, u) == [id \in {k \in DOMAIN coll : coll[k].userId = u} |-> coll[id]]

\* what GET /api/expenses, /api/budgets, /api/insights and /api/analytics/stats
\* return to user u
ViewOf(u) ==
    [expenses   |-> Owned(expenses, u),
     budgets    |-> Owned(budgets, u),
     insights   |-> Owned(insights, u),
     totalSpent |-> TotalSpent(expenses, u, 1, 2),
     groups     |-> CategoryGroups(expenses, u, 1, 2),
     dailyTrend |-> DailyTrend(expenses, u, 1, 2)]

\* C7: no request authenticated as one user changes what the expense, budget,
\* insight and stats requests of another user return.
C7_UsersIndependent ==
    [][\A a \in Users : \A b \in Users \ {a} : RequestBy(b) => ViewOf(a)' = ViewOf(a)]_vars

(********************* the replies of the AI service ************************)
ReplyKinds == {[kind |-> "throw"], [kind |-> "malformed"], [kind |-> "empty"], [kind |-> "null"]}

ConfidenceValues ==
    {[t |-> "undefined"], [t |-> "num", v |-> "0.95"], [t |-> "num", v |-> "0"],
     [t |-> "num", v |-> "1.5"], [t |-> "num", v |-> "-0.2"], [t |-> "str", v |-> "high"]}

CategorizeReplies ==
    ReplyKinds \cup
    {[kind |-> "object", json |-> [category |-> c, confidence |-> x, reasoning |-> r]] :
        c \in {Undefined, "food", "Food"},
        x \in ConfidenceValues,
        r \in {Undefined, "keywords"}}

ReplyEntry(type, priority, title) ==
    [isNull |-> FALSE, type |-> type, title |-> title, description |-> Undefined,
     priority |-> priority]

\* entries with each type and priority of the enums, with a type or a priority
\* outside them, without fields, and the JSON null
ReplyEntries ==
    {ReplyEntry("alert", "high", "Food Budget Exceeded"),
     ReplyEntry("goal", "low", "Under Budget"),
     ReplyEntry("warning", "medium", "Near Limit"),
     ReplyEntry("tip", "high", "Odd type"),
     ReplyEntry("alert", "urgent", "Odd priority"),
     ReplyEntry(Undefined, Undefined, Undefined),
     [ReplyEntry(Undefined, Undefined, Undefined) EXCEPT !.isNull = TRUE]}

RECURSIVE SeqsUpTo(_, _)
SeqsUpTo(S, n) ==
    IF n = 0 THEN {<< >>}
    ELSE SeqsUpTo(S, n - 1) \cup
         {Append(q, x) : q \in {p \in SeqsUpTo(S, n - 1) : Len(p) = n - 1}, x \in S}

InsightReplies ==
    ReplyKinds \cup
    {[kind |-> "object", json |-> [insights |-> [t |-> "undefined"]]],
     [kind |-> "object", json |-> [insights |-> [t |-> "notArray"]]]} \cup
    {[kind |-> "object", json |-> [insights |-> [t |-> "array", v |-> q]]] :
        q \in SeqsUpTo(ReplyEntries, MaxReplyInsights)}

\* request bodies of POST /api/ai/categorize: with and without a description
CategorizeBodies ==
    {[description |-> "lunch", amount |-> One], [description |-> Undefined, amount |-> One]}

AICategorizeExpense ==
    \E body \in CategorizeBodies : \E reply \in CategorizeReplies :
        CallCategorizeExpense(body, reply)

AIPostInsightsGenerate == \E reply \in InsightReplies : PostInsightsGenerate("u1", reply)

NextAI ==
    \/ AICategorizeExpense
    \/ AIPostInsightsGenerate

SpecAI == Init /\ [][NextAI]_vars

(******************** claims about the AI service's replies *****************)
IsObjectArray(reply) ==
    /\ reply.kind = "object"
    /\ reply.json.insights.t = "array"
    /\ \A i \in 1..Len(reply.json.insights.v) : ~reply.json.insights.v[i].isNull

CoercedType(type) ==
    IF type \in {"alert", "goal", "warning", "recommendation"} THEN type ELSE "recommendation"

CoercedPriority(priority) ==
    IF priority \in {"low", "medium", "high"} THEN priority ELSE "medium"

\* C8: every insight generateInsights returns, and every insight stored, has a
\* type among alert, goal, warning, recommendation and a priority among low,
\* medium, high; an entry of the reply with another or no type becomes a
\* recommendation, one with another or no priority becomes medium, and the
\* entry is kept.
C8_InsightEnumsCoerced ==
    /\ \A id \in DOMAIN insights :
        /\ insights[id].type \in {"alert", "goal", "warning", "recommendation"}
        /\ insights[id].priority \in {"low", "medium", "high"}
    /\ ai.fn = "generateInsights" =>
        /\ \A i \in 1..Len(ai.result) :
            /\ ai.result[i].type \in {"alert", "goal", "warning", "recommendation"}
            /\ ai.result[i].priority \in {"low", "medium", "high"}
        /\ IsObjectArray(ai.reply) =>
            /\ Len(ai.result) = Len(ai.reply.json.insights.v)
            /\ \A i \in 1..Len(ai.result) :
                /\ ai.result[i].type = CoercedType(ai.reply.json.insights.v[i].type)
                /\ ai.result[i].priority = CoercedPriority(ai.reply.json.insights.v[i].priority)

C8_Witness ==
    /\ ai.fn = "generateInsights"
    /\ IsObjectArray(ai.reply)
    /\ Len(ai.result) = 2
    /\ ai.reply.json.insights.v[1].type = "tip"
    /\ ai.reply.json.insights.v[2].priority = "urgent"
    /\ \E id \in DOMAIN insights :
        insights[id].title = "Odd type" /\ insights[id].type = "recommendation"
    /\ \E id \in DOMAIN insights :
        insights[id].title = "Odd priority" /\ insights[id].priority = "medium"

\* C9: when the AI call throws or its reply is no JSON, generateInsights returns
\* exactly one insight, of type recommendation, titled "Track Your Expenses",
\* of priority medium.
C9_InsightsFallback ==
    (ai.fn = "generateInsights" /\ ai.reply.kind \in {"throw", "malformed"}) =>
        /\ Len(ai.result) = 1
        /\ ai.result[1].type = "recommendation"
        /\ ai.result[1].title = "Track Your Expenses"
        /\ ai.result[1].priority = "medium"

C9_Witness ==
    /\ ai.fn = "generateInsights"
    /\ ai.reply.kind = "malformed"
    /\ \E id \in DOMAIN insights : insights[id].title = "Track Your Expenses"

\* C10: when the AI call throws or its reply is no JSON, categorizeExpense
\* returns category shopping, confidence 0.1 and the reasoning of the fallback.
C10_CategorizeFallback ==
    (ai.fn = "categorizeExpense" /\ ai.reply.kind \in {"throw", "malformed"}) =>
        /\ ai.result.category = "shopping"
        /\ ai.result.confidence = parseFloat("0.1")
        /\ ai.result.reasoning = "Default categorization due to AI service error"

C10_Witness ==
    /\ ai.fn = "categorizeExpense"
    /\ ai.reply.kind = "throw"
    /\ ai.result.category = "shopping"

(******************* requests while the AI service is down ******************)
FailingReplies == {[kind |-> "throw"], [kind |-> "malformed"]}

\* valid bodies of POST /api/expenses that carry no categoryId
UncategorizedBodies == {ExpenseBody("0.10", 1), ExpenseBody("12.50", 2)}

OutageCategoryBodies == {[name |-> "Shopping", color |-> "#8b5cf6"]}

OutagePostExpenses ==
    \E body \in UncategorizedBodies : \E reply \in FailingReplies :
        PostExpenses("u1", body, reply)

OutageCategorize ==
    \E body \in CategorizeBodies : \E reply \in FailingReplies :
        CallCategorizeExpense(body, reply)

OutagePostInsightsGenerate == \E reply \in FailingReplies : PostInsightsGenerate("u1", reply)

OutagePostCategories == \E body \in OutageCategoryBodies : PostCategories("u1", body)

NextOutage ==
    \/ OutagePostExpenses
    \/ OutageCategorize
    \/ OutagePostInsightsGenerate
    \/ OutagePostCategories

SpecOutage == Init /\ [][NextOutage]_vars

\* C11: a request served while the AI call fails ends in a success response:
\* POST /api/expenses with a valid body without categoryId answers 200 and the
\* expense is stored for the user, POST /api/ai/categorize with a description
\* answers 200, and POST /api/insights/generate answers 200.
C11_AIFailureNotSurfaced ==
    [][/\ \A body \in UncategorizedBodies : \A reply \in FailingReplies :
            PostExpenses("u1", body, reply) =>
                /\ resp' = 200
                /\ DOMAIN expenses' = DOMAIN expenses \cup {nextId.expense}
                /\ nextId.expense \notin DOMAIN expenses
                /\ expenses'[nextId.expense].userId = "u1"
                /\ expenses'[nextId.expense].amount = parseFloat(body.amount)
                /\ expenses'[nextId.expense].date = body.date
       /\ \A body \in CategorizeBodies : \A reply \in FailingReplies :
            (Truthy(body.description) /\ CallCategorizeExpense(body, reply)) => resp' = 200
       /\ \A reply \in FailingReplies :
            PostInsightsGenerate("u1", reply) => resp' = 200]_vars

C11_Witness ==
    /\ resp = 200
    /\ ai.fn = "categorizeExpense"
    /\ ai.reply.kind = "throw"
    /\ \E id \in DOMAIN expenses : expenses[id].categoryId = Null
    /\ \E id \in DOMAIN expenses : expenses[id].categoryId # Null
    /\ \E id \in DOMAIN insights : insights[id].title = "Track Your Expenses"

\* the number a reply of the AI service carries as its confidence
RepliedNumber == parseFloat(ai.reply.json.confidence.v)

\* C12: the confidence categorizeExpense returns lies in [0,1] whatever the
\* reply; a replied number below 0 is returned as 0, one above 1 as 1, and one
\* within [0,1], 0 included, as it is.
C12_ConfidenceClamped ==
    ai.fn = "categorizeExpense" =>
        /\ ~ai.result.confidence.nan
        /\ ~F64Less(ai.result.confidence, Zero)
        /\ ~F64Less(One, ai.result.confidence)
        /\ (ai.reply.kind = "object" /\ ai.reply.json.confidence.t = "num") =>
              ai.result.confidence =
                  IF F64Less(RepliedNumber, Zero) THEN Zero
                  ELSE IF F64Less(One, RepliedNumber) THEN One
                  ELSE RepliedNumber

(**************** the analysis generateInsights sends along *****************)
AnalysedNames == {"Food", "constructor"}

SummaryEntry(amount, name) == [amount |-> parseFloat(amount), categoryName |-> name]

CurrentEntries == {SummaryEntry(a, n) : a \in {"0.84", "6.00", "7.50"}, n \in AnalysedNames}

PreviousEntries == {SummaryEntry(a, n) : a \in {"0.70", "5.00"}, n \in AnalysedNames}

BudgetEntries == {SummaryEntry(a, n) : a \in {"0", "5.00"}, n \in AnalysedNames}

\* the arguments of one call of generateInsights
InitAnalysis ==
    /\ expenses = << >>
    /\ categories = << >>
    /\ budgets = << >>
    /\ insights = << >>
    /\ nextId = [expense |-> 1, category |-> 1, budget |-> 1, insight |-> 1]
    /\ call = IdleCall
    /\ resp = 0
    /\ seen = {}
    /\ writes = 0
    /\ pending = << >>
    /\ \E e \in SeqsUpTo(CurrentEntries, MaxCurrent) :
       \E q \in SeqsUpTo(PreviousEntries, MaxPrevious) :
       \E b \in BudgetEntries :
           ai = [fn |-> "arguments", expenses |-> e, previousMonthExpenses |-> q,
                 budgets |-> <<b>>]

\* generateInsights up to the request to the AI service
Summarise ==
    /\ ai.fn = "arguments"
    /\ ai' = [fn |-> "summary", expenses |-> ai.expenses,
              previousMonthExpenses |-> ai.previousMonthExpenses, budgets |-> ai.budgets,
              summary |-> expenseSummary(ai.expenses, ai.previousMonthExpenses, ai.budgets)]
    /\ UNCHANGED <<expenses, categories, budgets, insights, nextId, call, resp, seen, writes, pending>>

NextAnalysis == Summarise

SpecAnalysis == InitAnalysis /\ [][NextAnalysis]_vars

\* the spend on category name that a list of expenses holds
RECURSIVE SpendOf(_, _)
SpendOf(list, name) ==
    IF Len(list) = 0 THEN Zero
    ELSE LET rest == SpendOf(SubSeq(list, 1, Len(list) - 1), name)
         IN  IF list[Len(list)].categoryName = name
             THEN F64Add(rest, list[Len(list)].amount)
             ELSE rest

NamesOf(list) == {list[i].categoryName : i \in 1..Len(list)}

\* C13: the trends hold one entry per category of the current period, and its
\* change is (current - previous) / previous * 100 when the previous spend on
\* the category is above 0, and 0 when it is 0.
C13_ChangePercent ==
    ai.fn = "summary" =>
        /\ {ai.summary.trends[i].category : i \in 1..Len(ai.summary.trends)} =
               NamesOf(ai.expenses)
        /\ \A i \in 1..Len(ai.summary.trends) :
            LET category == ai.summary.trends[i].category
                current  == SpendOf(ai.expenses, category)
                previous == SpendOf(ai.previousMonthExpenses, category)
            IN  ai.summary.trends[i].change =
                    IF F64Less(Zero, previous)
                    THEN F64Mul(F64Div(F64Sub(current, previous), previous), Hundred)
                    ELSE Zero

\* C14: for every budget the analysis holds utilization = spent / budgetAmount
\* * 100 when budgetAmount is above 0 and 0 when it is 0, remaining =
\* budgetAmount - spent, and isOverBudget exactly when spent > budgetAmount,
\* which is exactly when remaining < 0; spent is the current spend on the
\* budget's category.
C14_BudgetAnalysis ==
    ai.fn = "summary" =>
        /\ Len(ai.summary.budgetAnalysis) = Len(ai.budgets)
        /\ \A i \in 1..Len(ai.budgets) :
            LET entry  == ai.summary.budgetAnalysis[i]
                amount == ai.budgets[i].amount
                spent  == SpendOf(ai.expenses, ai.budgets[i].categoryName)
            IN  /\ entry.utilization =
                       IF F64Less(Zero, amount) THEN F64Mul(F64Div(spent, amount), Hundred)
                       ELSE Zero
                /\ entry.remaining = F64Sub(amount, spent)
                /\ entry.isOverBudget = F64Less(amount, spent)
                /\ entry.isOverBudget = F64Less(entry.remaining, Zero)
                /\ amount = Zero => entry.isOverBudget = F64Less(Zero, spent)

\* the change% of category name between the two periods
ChangeOf(name) ==
    LET current  == SpendOf(ai.expenses, name)
        previous == SpendOf(ai.previousMonthExpenses, name)
    IN  IF F64Less(Zero, previous)
        THEN F64Mul(F64Div(F64Sub(current, previous), previous), Hundred)
        ELSE Zero

\* C15: the savings opportunities list exactly the categories of the current
\* period whose change% is above 20, once each, with potentialSaving 15% of the
\* category's current spend; a category whose change% is 20 or that has no
\* previous spend is not listed.
C15_SavingsOpportunities ==
    ai.fn = "summary" =>
        LET listed == ai.summary.savingsOpportunities
        IN  /\ {listed[i].category : i \in 1..Len(listed)} =
                   {name \in NamesOf(ai.expenses) : F64Less(Twenty, ChangeOf(name))}
            /\ \A i, j \in 1..Len(listed) : i # j => listed[i].category # listed[j].category
            /\ \A i \in 1..Len(listed) :
                   listed[i].potentialSaving =
                       F64Mul(SpendOf(ai.expenses, listed[i].category), parseFloat("0.15"))
            /\ \A i \in 1..Len(listed) :
                   /\ ChangeOf(listed[i].category) # Twenty
                   /\ SpendOf(ai.previousMonthExpenses, listed[i].category) # Zero

(********************* the requests that touch insights *********************)
ReadReplies ==
    {[kind |-> "throw"],
     [kind |-> "object",
      json |-> [insights |-> [t |-> "array",
                              v |-> <<ReplyEntry("alert", "high", "Food Budget Exceeded")>>]]]}

ReadPostInsightsGenerate ==
    \E u \in Users : \E reply \in ReadReplies : PostInsightsGenerate(u, reply)

ReadPutInsightRead == \E u \in Users : \E id \in 1..MaxInsights : PutInsightRead(u, id)

ReadPostExpenses == PostExpenses("u1", ExpenseBody("0.10", 1), [kind |-> "throw"])

ReadDeleteExpense == \E id \in 1..MaxExpenses : DeleteExpense("u1", id)

NextRead ==
    \/ ReadPostInsightsGenerate
    \/ ReadPutInsightRead
    \/ ReadPostExpenses
    \/ ReadDeleteExpense

SpecRead == Init /\ [][NextRead]_vars

\* C16: an insight is stored with isRead "false", stays stored, only a step of
\* PUT /api/insights/:id/read changes an isRead, and an isRead that is "true"
\* stays "true" in every step.
C16_IsReadOneDirectional ==
    [][/\ \A id \in DOMAIN insights' \ DOMAIN insights : insights'[id].isRead = "false"
       /\ \A id \in DOMAIN insights :
            /\ id \in DOMAIN insights'
            /\ insights[id].isRead = "true" => insights'[id].isRead = "true"
            /\ insights'[id].isRead # insights[id].isRead =>
                   \E u \in Users : PutInsightRead(u, id)]_vars

C16_Witness ==
    /\ \E id \in DOMAIN insights : insights[id].isRead = "true"
    /\ \E id \in DOMAIN insights : insights[id].isRead = "false"
    /\ DOMAIN expenses # {}

\* C17: marking an insight that is read already changes nothing in the store,
\* a marking changes only the isRead of the insight marked, and marking once
\* more gives the same store.
C17_MarkReadIdempotent ==
    [][\A u \in Users : \A id \in 1..MaxInsights :
          PutInsightRead(u, id) =>
              /\ DOMAIN insights' = DOMAIN insights
              /\ (id \in DOMAIN insights /\ insights[id].isRead = "true") =>
                     insights' = insights
              /\ \A k \in DOMAIN insights \ {id} : insights'[k] = insights[k]
              /\ id \in DOMAIN insights =>
                     insights'[id] = [insights[id] EXCEPT !.isRead = "true"]
              /\ markInsightAsRead(insights', id) = insights']_vars

C17_Witness ==
    /\ Cardinality(DOMAIN insights) = 2
    /\ insights[1].isRead = "true"
    /\ insights[2].isRead = "false"
    /\ resp = 200

(************************** the stats endpoint ******************************)
\* C18: GET /api/analytics/stats without startDate or endDate answers 400 and
\* runs no query on the expense collection; with both dates the call is made
\* for the authenticated user and the dates given, and the 200 response carries
\* the totalSpent, categoryBreakdown and dailyTrend of that user and range.
C18_StatsNeedsBothDates ==
    [][/\ GetStatsBadRequest("u1") =>
            /\ resp' = 400
            /\ call' = call
            /\ seen' = seen
       /\ \A r \in DateRanges :
            (call'.pc = "category" /\ GetStatsTotal("u1", r[1], r[2])) =>
                /\ call'.userId = "u1"
                /\ call'.startDate = r[1]
                /\ call'.endDate = r[2]
       /\ GetStatsRespond =>
            /\ resp' = 200
            /\ call.userId = "u1"
            /\ call.totalSpent =
                   TotalSpent(expenses, call.userId, call.startDate, call.endDate)
            /\ call.categoryResult \in
                   CategoryResults(expenses, call.userId, call.startDate, call.endDate)
            /\ Len(call.categoryBreakdown) = Len(call.categoryResult)
            /\ \A i \in 1..Len(call.categoryBreakdown) :
                   call.categoryBreakdown[i] = BreakdownEntry(categories, call.categoryResult[i])
            /\ call.dailyTrend =
                   DailyTrend(expenses, call.userId, call.startDate, call.endDate)]_vars

C18_Witness ==
    /\ call.pc = "done"
    /\ call.userId = "u1"
    /\ \E id \in DOMAIN expenses : expenses[id].userId = "u2"
    /\ call.totalSpent = parseFloat("0.20")
    /\ Len(call.categoryBreakdown) = 1
    /\ Len(call.dailyTrend) = 1

(************************ requests on expenses by id ************************)
\* C19: a PUT or DELETE /api/expenses/:id whose id is that of no stored expense
\* gets a response that is no success, and leaves the expenses as they are.
C19_MissingExpenseFails ==
    [][\A u \in Users : \A id \in (1..MaxExpenses) \ DOMAIN expenses :
          /\ \A body \in UpdateBodies :
                PutExpense(u, id, body) => (resp' # 200 /\ expenses' = expenses)
          /\ DeleteExpense(u, id) => (resp' # 200 /\ expenses' = expenses)]_vars

(******************* the owner of an expense across requests ****************)
\* bodies of POST /api/expenses that name a userId of their own
OwnerPostBodies ==
    {ExpenseBody("0.10", 1), [ExpenseBody("0.10", 1) EXCEPT !.userId = "nobody"]}

\* bodies of PUT /api/expenses/:id: an amount, a userId
OwnerUpdateBodies == {[amount |-> "0.20"], [userId |-> "nobody"], [userId |-> "u2"]}

OwnerPostExpenses ==
    \E u \in Users : \E body \in OwnerPostBodies : PostExpenses(u, body, [kind |-> "throw"])

OwnerPutExpense ==
    \E u \in Users : \E id \in 1..MaxExpenses : \E body \in OwnerUpdateBodies :
        PutExpense(u, id, body)

OwnerDeleteExpense == \E u \in Users : \E id \in 1..MaxExpenses : DeleteExpense(u, id)

NextOwner ==
    \/ OwnerPostExpenses
    \/ OwnerPutExpense
    \/ OwnerDeleteExpense

SpecOwner == Init /\ [][NextOwner]_vars

\* C20: after any sequence of requests the userId of every stored expense is
\* that of an existing user.
C20_ExpenseUserExists ==
    \A id \in DOMAIN expenses : expenses[id].userId \in Users

(******************* the amounts the store comes to hold ********************)
\* bodies of POST /api/expenses by their amount text
AmountPostBodies ==
    {ExpenseBody("12.50", 1), ExpenseBody("1.005", 1), ExpenseBody("-5.00", 1),
     ExpenseBody("abc", 1)}

\* bodies of PUT /api/expenses/:id
AmountUpdateBodies ==
    {[amount |-> "2.25"], [amount |-> "1.005"], [amount |-> "-5.00"], [amount |-> "abc"]}

\* bodies of POST /api/budgets
AmountBudgetBodies ==
    {[userId |-> "u1", amount |-> a, startDate |-> 1, endDate |-> 2, categoryId |-> Null] :
        a \in {"5.00", "1.005"}}

AmountPostExpenses ==
    \E body \in AmountPostBodies : PostExpenses("u1", body, [kind |-> "throw"])

AmountPutExpense ==
    \E id \in 1..MaxExpenses : \E body \in AmountUpdateBodies : PutExpense("u1", id, body)

AmountPostBudgets == \E body \in AmountBudgetBodies : PostBudgets("u1", body)

AmountDeleteBudget == \E id \in 1..MaxBudgets : DeleteBudget("u1", id)

NextAmount ==
    \/ AmountPostExpenses
    \/ AmountPutExpense
    \/ AmountPostBudgets
    \/ AmountDeleteBudget

SpecAmount == Init /\ [][NextAmount]_vars

\* v is the number of a decimal with two fractional digits
TwoFractionalDigits(v) ==
    /\ ~v.nan
    /\ ToMilli(v) % 10 = 0
    /\ v.mag = DecToMag(IF v.neg THEN 0 - ToMilli(v) ELSE ToMilli(v), 3)

\* C21: after any sequence of create and update requests every stored expense
\* amount and budget amount has exactly two fractional digits; an amount sent
\* with more digits ("1.005") is never stored with more than two.
C21_TwoFractionalDigits ==
    /\ \A id \in DOMAIN expenses : TwoFractionalDigits(expenses[id].amount)
    /\ \A id \in DOMAIN budgets : TwoFractionalDigits(budgets[id].amount)

\* the amount text is a negative number or no decimal number
NotNonNegativeDecimal(s) == ToNumber(s).nan \/ ToNumber(s).neg

\* C22: every stored expense has a non-negative numeric amount: a POST or PUT
\* of /api/expenses whose amount is a negative number string or no decimal
\* number is answered 400 and stores or changes nothing.
C22_NegativeOrNonNumericRejected ==
    [][/\ \A id \in DOMAIN expenses' :
            ~expenses'[id].amount.nan /\ ~expenses'[id].amount.neg
       /\ \A body \in AmountPostBodies :
            (NotNonNegativeDecimal(body.amount)
             /\ PostExpenses("u1", body, [kind |-> "throw"]))
                => (resp' = 400 /\ expenses' = expenses)
       /\ \A id \in 1..MaxExpenses : \A body \in AmountUpdateBodies :
            (NotNonNegativeDecimal(body.amount) /\ PutExpense("u1", id, body))
                => (resp' = 400 /\ expenses' = expenses)]_vars

(************* concurrent requests for insights of one user *****************)
\* replies of the AI service: a failure (one fallback insight), no content (no
\* insight), one insight
GenerateReplies == ReadReplies \cup {[kind |-> "empty"]}

ConcGenerateStart ==
    \E r \in 1..MaxRequests : \E reply \in GenerateReplies : GenerateStart(r, "u1", reply)

ConcGenerateSave ==
    \E r \in 1..MaxRequests : \E i \in 1..MaxInsights : GenerateSave(r, i)

ConcGenerateRespond == \E r \in 1..MaxRequests : GenerateRespond(r)

NextGenerate ==
    \/ ConcGenerateStart
    \/ ConcGenerateSave
    \/ ConcGenerateRespond

SpecGenerate == Init /\ [][NextGenerate]_vars

\* the runs of the handler that have answered
Answered == {r \in DOMAIN pending : pending[r].fn = "generate" /\ pending[r].pc = "done"}

RECURSIVE Returned(_)
Returned(runs) ==
    IF runs = {} THEN 0
    ELSE Len(pending[SetMax(runs)].aiInsights) + Returned(runs \ {SetMax(runs)})

\* C23: when requests of one user for insights interleave and answer, every
\* insight returned to either is stored as a row of its own, and the user's
\* insight count has grown by the sum of the lengths of the lists returned,
\* duplicates included.
C23_ConcurrentGenerateKeepsAll ==
    /\ \A r \in Answered : \A i \in 1..Len(pending[r].aiInsights) :
          /\ pending[r].savedInsights[i] \in DOMAIN insights
          /\ insights[pending[r].savedInsights[i]] =
                createInsight([userId |-> "u1", type |-> pending[r].aiInsights[i].type,
                               title |-> pending[r].aiInsights[i].title,
                               description |-> pending[r].aiInsights[i].description,
                               priority |-> pending[r].aiInsights[i].priority,
                               isRead |-> "false"])
    /\ \A r, t \in Answered :
          \A i \in 1..Len(pending[r].aiInsights) : \A j \in 1..Len(pending[t].aiInsights) :
              (r # t \/ i # j) => pending[r].savedInsights[i] # pending[t].savedInsights[j]
    /\ Answered = DOMAIN pending =>
          Cardinality({id \in DOMAIN insights : insights[id].userId = "u1"}) = Returned(Answered)

\* two runs have answered; the second started while the first was in flight, saved
\* before it, and both returned an insight of the same title
C23_Witness ==
    \E r, t \in Answered :
        /\ r # t
        /\ r \in pending[t].with
        /\ Len(pending[r].aiInsights) = 1 /\ Len(pending[t].aiInsights) = 1
        /\ pending[r].aiInsights[1].title = pending[t].aiInsights[1].title
        /\ pending[t].savedInsights[1] < pending[r].savedInsights[1]

(**************** the category matched to the label of the AI ***************)
MatchCategoryBodies ==
    {[name |-> "Food & Dining", color |-> "#ef4444"], [name |-> "Shopping", color |-> "#10b981"]}

\* replies of the AI service: a failure, a label in lower case, the label
\* capitalised, a label of no category
MatchReplies == {[kind |-> "throw"]} \cup {CategoryReply(l) : l \in {"food", "Food", "pets"}}

MatchPostCategories == \E body \in MatchCategoryBodies : PostCategories("u1", body)

MatchDeleteCategory == \E id \in 1..MaxCategories : DeleteCategory("u1", id)

MatchCategorize ==
    \E reply \in MatchReplies :
        CallCategorizeExpense([description |-> "lunch", amount |-> One], reply)

MatchPostExpenses ==
    \E reply \in MatchReplies : PostExpenses("u1", ExpenseBody("0.10", 1), reply)

NextMatch ==
    \/ MatchPostCategories
    \/ MatchDeleteCategory
    \/ MatchCategorize
    \/ MatchPostExpenses

SpecMatch == Init /\ [][NextMatch]_vars

\* the stored categories whose name holds label as a substring, letter case ignored
Matches(label) ==
    {id \in DOMAIN categories :
        includes(toLowerCase(categories[id].name), toLowerCase(label))}

\* C24: POST /api/ai/categorize and the auto-categorisation of POST
\* /api/expenses pick the category by a substring match of the AI's label in
\* the stored category names that ignores letter case: a label matching some
\* name selects a category with such a name, and when none matches the
\* suggestion is id null with name "Unknown" (the expense is left uncategorised).
C24_CaseInsensitiveMatch ==
    [][\A reply \in MatchReplies :
         /\ CallCategorizeExpense([description |-> "lunch", amount |-> One], reply) =>
              LET hits == Matches(ai'.result.category)
              IN  IF hits = {}
                  THEN ai'.suggestedCategoryId = Null /\ ai'.suggestedCategoryName = "Unknown"
                  ELSE /\ ai'.suggestedCategoryId \in hits
                       /\ ai'.suggestedCategoryName = categories[ai'.suggestedCategoryId].name
         /\ (PostExpenses("u1", ExpenseBody("0.10", 1), reply) /\ resp' = 200) =>
              LET hits == Matches(categorizeExpense("lunch", parseFloat("0.10"), reply).category)
                  new  == expenses'[nextId.expense].categoryId
              IN  IF hits = {} THEN new = Null ELSE new \in hits]_vars

(*************** the spend that a budget is measured against ****************)
\* expenses of the current month in category 1 and in none, one of the month before
SpentPostBodies ==
    {ExpenseBody("6.00", 2) @@ [categoryId |-> 1],
     ExpenseBody("7.50", 2),
     ExpenseBody("0.50", 1) @@ [categoryId |-> 1]}

\* a budget attached to category 1 and a general one
SpentBudgetBodies ==
    {[userId |-> "u1", amount |-> "5.00", startDate |-> 1, endDate |-> 2, categoryId |-> 1],
     [userId |-> "u1", amount |-> "5.00", startDate |-> 1, endDate |-> 2]}

SpentPostCategories == \E body \in CategoryBodies : PostCategories("u1", body)

SpentPostExpenses ==
    \E body \in SpentPostBodies : PostExpenses("u1", body, [kind |-> "throw"])

SpentPostBudgets == \E body \in SpentBudgetBodies : PostBudgets("u1", body)

SpentPostInsightsGenerate == PostInsightsGenerate("u1", [kind |-> "throw"])

NextSpent ==
    \/ SpentPostCategories
    \/ SpentPostExpenses
    \/ SpentPostBudgets
    \/ SpentPostInsightsGenerate

SpecSpent == Init /\ [][NextSpent]_vars

\* the total of the expenses of user u in category c dated in the current month
MonthTotal(u, c) ==
    SumAmount(expenses, {id \in MatchStage(expenses, u, CurrentMonth[1], CurrentMonth[2]) :
                            expenses[id].categoryId = c})

\* C25: in POST /api/insights/generate the spent value of a budget attached to
\* a category C is the user's current-month total of the expenses in C, and
\* utilization, remaining and isOverBudget follow from that total; spent is not
\* 0 while the user has current-month expenses in C.
C25_BudgetSpentByCategory ==
    [][PostInsightsGenerate("u1", [kind |-> "throw"]) =>
         LET list == getBudgetsByUser(budgets, "u1")
         IN  \A i \in 1..Len(list) :
                 (list[i].categoryId # Null /\ list[i].categoryId \in DOMAIN categories) =>
                     LET total == MonthTotal("u1", list[i].categoryId)
                         entry == ai'.budgetAnalysis[i]
                     IN  /\ entry.spent = JsNum(total)
                         /\ entry.remaining = F64Sub(list[i].amount, total)
                         /\ entry.utilization =
                                (IF F64Less(Zero, list[i].amount)
                                 THEN F64Mul(F64Div(total, list[i].amount), Hundred) ELSE Zero)
                         /\ entry.isOverBudget = F64Less(list[i].amount, total)]_vars

(************* expenses and budgets of a category that is deleted ***********)
DanglingPostBodies ==
    {ExpenseBody("0.20", 2) @@ [categoryId |-> 1], ExpenseBody("0.10", 1)}

DanglingPostExpenses ==
    /\ call.pc = "idle"
    /\ \E body \in DanglingPostBodies : PostExpenses("u1", body, [kind |-> "throw"])

DanglingPostBudgets ==
    /\ call.pc = "idle"
    /\ \E body \in BudgetBodies : PostBudgets("u1", body)

NextDangling ==
    \/ SeqPostCategories
    \/ SeqDeleteCategory
    \/ DanglingPostExpenses
    \/ DanglingPostBudgets
    \/ SeqGetStatsTotal
    \/ GetStatsCategory
    \/ GetStatsLookup
    \/ GetStatsDaily
    \/ GetStatsRespond

SpecDangling == Init /\ [][NextDangling]_vars

\* the _id is that of a category that is no longer stored
Dangling(cats, id) == id # Null /\ id \notin DOMAIN cats

\* what a read of all expenses of user u returns
ReadAll(u) == getExpensesByUserAndDateRange(expenses, categories, u, 1, 2)

\* the read list reports each expense of a category not in cats without category
WithoutCategory(cats, list) ==
    \A i \in 1..Len(list) : Dangling(cats, list[i].categoryId) => list[i].category = NoCategory

\* the statistics c list the amount of each such category as "Uncategorized"
AsUncategorized(cats, c) ==
    \A i \in 1..Len(c.categoryResult) :
        Dangling(cats, c.categoryResult[i]._id) =>
            c.categoryBreakdown[i] =
                [categoryName |-> "Uncategorized", amount |-> c.categoryResult[i].amount,
                 color |-> "#6b7280"]

\* C26: deleteCategory removes the category record only: every expense and
\* budget that referenced it keeps its categoryId, amount and other fields and
\* the counts of expenses and budgets stay; later reads report those expenses
\* with category null and the breakdown counts them under "Uncategorized".
C26_DeleteCategoryFrame ==
    /\ [][\A u \in Users : \A id \in 1..MaxCategories :
            DeleteCategory(u, id) =>
                /\ categories' = Remove(categories, id)
                /\ expenses' = expenses
                /\ budgets' = budgets]_vars
    /\ [](/\ \A u \in Users : WithoutCategory(categories, ReadAll(u))
          /\ call.pc = "done" => AsUncategorized(categories, call))

\* category 1 is deleted, an expense and a budget still carry its id, the read
\* reports the expense without category and the statistics that have been
\* computed list its amount as "Uncategorized"
C26_Witness ==
    /\ 1 \notin DOMAIN categories
    /\ \E id \in DOMAIN budgets : budgets[id].categoryId = 1
    /\ \E i \in 1..Len(ReadAll("u1")) :
          ReadAll("u1")[i].categoryId = 1 /\ ReadAll("u1")[i].category = NoCategory
    /\ call.pc = "done"
    /\ \E i \in 1..Len(call.categoryResult) :
          /\ call.categoryResult[i]._id = 1
          /\ call.categoryBreakdown[i].categoryName = "Uncategorized"

(******************* the label that categorizeExpense returns ***************)
\* C27 as stated: the category that categorizeExpense returns is one of the
\* eight fixed values, whatever the AI service replies.
C27_CategoryInEnum ==
    ai.fn = "categorizeExpense" => ai.result.category \in ExpenseCategories

\* C27 as amended: categorizeExpense returns the category of the reply unchanged
\* when the reply is a JSON object that carries one, and "shopping", one of the
\* eight, when the reply carries none or the call or the parse fails.
C27_CategoryAsReplied ==
    ai.fn = "categorizeExpense" =>
        ai.result.category =
            (IF ai.reply.kind = "object" /\ Truthy(ai.reply.json.category)
             THEN ai.reply.json.category ELSE "shopping")

\* the service has replied a label outside the eight and it was returned
C27_Witness ==
    /\ ai.fn = "categorizeExpense"
    /\ ai.reply.kind = "object"
    /\ ai.reply.json.category = "Food"
    /\ ai.result.category = "Food"
    /\ resp = 200

(************************ the starts of the server **************************)
StartInitialize == \E r \in 1..MaxStarts : \E failed \in BOOLEAN : InitializeStart(r, failed)

StartCreate == \E r \in 1..MaxStarts : InitializeCreate(r)

StartCatch == \E r \in 1..MaxStarts : InitializeCatch(r)

NextStart ==
    \/ StartInitialize
    \/ StartCreate
    \/ StartCatch

SpecStart == Init /\ [][NextStart]_vars

\* C28: after any number of runs of initializeDefaultCategories, runs in which
\* getCategories fails and runs of two instances that interleave included, each
\* of the eight default category names is stored at most once.
C28_DefaultsNotDuplicated ==
    \A i \in 1..Len(defaultCategories) :
        Cardinality({id \in DOMAIN categories :
                        categories[id].name = defaultCategories[i].name}) <= 1

(****************** the user of the AIInsights component ********************)
UserGenerateInsights ==
    \E u \in Users : \E reply \in ReadReplies : ClientGenerateInsights(u, reply)

UserMarkAsRead == \E u \in Users : \E id \in 1..MaxInsights : ClientMarkAsRead(u, id)

\* a request of another client of the API: PUT /api/insights/:id/read
OtherPutInsightRead ==
    \E u \in Users : \E id \in 1..MaxInsights :
        Dispatch("PUT", "/api/insights/:id/read", u, id, [kind |-> "throw"])

NextClient ==
    \/ UserGenerateInsights
    \/ UserMarkAsRead
    \/ OtherPutInsightRead

SpecClient == Init /\ [][NextClient]_vars

\* C29: the request that the component sends for "Mark as Read" on an unread
\* insight is handled by the server's mark-read route: when the request has been
\* answered the insight has isRead "true".
C29_MarkAsReadReachesServer ==
    [][\A u \in Users : \A id \in 1..MaxInsights :
          ClientMarkAsRead(u, id) => insights'[id].isRead = "true"]_vars

====
